---- MODULE Spec2Model ----
(***************************************************************************)
(* Conversational agent runtime (shiyan14712/ChatAgentSystem).             *)
(*                                                                         *)
(* The module models ChatAgent.chat / ChatAgent.chat_stream / interrupt    *)
(* (src/app/agent/core.py) on top of MemoryManager (src/app/memory/        *)
(* manager.py), ContextWindow (src/app/memory/context.py) and the          *)
(* compressor (src/app/memory/compressor.py).                              *)
(*                                                                         *)
(* Every action is one stretch of code between two points where the        *)
(* coroutine really gives control back to the event loop: the await of an  *)
(* LLM request, the await of the next provider delta, the await of the     *)
(* tool batch, and a yield of the async generator.                         *)
(***************************************************************************)
EXTENDS Integers, Sequences, FiniteSets, TLC

(***************************************************************************)
(* Bounds of the model.                                                    *)
(***************************************************************************)
MaxRuns == 2            \* calls of chat / chat_stream explored
MaxSessions == 1        \* session ids; an id not yet created is "unknown"
MaxIterations == 2      \* settings.agent.max_iterations, scaled down
MaxCalls == 2           \* LLM requests the provider answers, all runs together
MaxDeltas == 2          \* deltas one provider stream delivers at most
MaxExecutes == 2            \* concurrent calls of ToolExecutor.execute
MaxParallel == 2            \* ToolExecutor.max_parallel
MaxBatch == 3               \* tool calls in one call of execute
MaxTodoOps == 3             \* calls on the TodoRepository exercised on its own
MaxWindowOps == 5           \* operations on the ContextWindow exercised on its own
MaxWindowMessages == 3      \* messages offered to it
MaxSandboxCalls == 2         \* calls of CodeExecutor.execute
MaxEnqueues == 6             \* calls of enqueue on the queue on its own
QueueMaxSize == 5            \* InMemoryQueueBackend.max_size, scaled down
Priorities == {1, 2, 3}      \* MessagePriority values, scaled down
MaxMemoryOps == 5            \* calls made on the MemoryManager on its own
MessageSizes == {2, 20, 70}  \* content sizes of the messages added to it
MaxCompressLen == 4          \* messages in a list given to compress
MaxBackendCalls == 5          \* calls of enqueue, dequeue and clear, concurrent
BackendMaxSize == 2           \* max_size of that backend, scaled down
MaxConsumers == 2             \* coroutines calling dequeue
MaxLoopCalls == 5             \* calls of start, stop, pause and resume
MaxFragments == 4            \* tool-call fragments of one LLM response
MaxIndex == 2                \* largest tool-call index of a fragment
MaxContextTokens == 64  \* settings.memory.max_context_tokens, scaled down
ReservedTokens == 4     \* ContextWindow.reserved_tokens, scaled down
PlaceholderTokens == 3  \* count_tokens("[已压缩的历史消息]"), scaled down

(***************************************************************************)
(* Program constants.                                                      *)
(***************************************************************************)
CompressionThresholdPct == 92   \* compression_threshold = 0.92
DefaultMaxRetries == 3          \* RetryMiddleware(max_retries=3)
TargetRatioPct == 30            \* target_compression_ratio = 0.3
SegmentMaxMessages == 10        \* _should_create_new_segment
ColdOverhead == 20              \* move_to_cold: count_tokens(summary) + 20
MessageOverhead == 4            \* count_message_tokens: <im_start>, role, \n, <im_end>
AssistantPriming == 2           \* count_message_tokens: assistant priming
KeepRecent == 3                 \* SummaryCompressor.compress: last 3 messages
MinCompressLen == 3             \* SummaryCompressor.compress: len(messages) < 3
ScoreThreshold == 700000        \* score >= 0.7, in millionths
DecayPct == 95                  \* ImportanceScorer.decay_factor = 0.95

RunIds == 1..MaxRuns
SessionIds == 1..MaxSessions
None == 0                       \* session_id = None
NoId == <<>>                    \* tool_call_id = None / id = ""
NoSummary == <<>>               \* summary = None

(***************************************************************************)
(* Small helpers on sequences.                                             *)
(***************************************************************************)
RECURSIVE SumSeq(_)
SumSeq(s) == IF s = <<>> THEN 0 ELSE Head(s) + SumSeq(Tail(s))

RECURSIVE Flatten(_)
Flatten(ss) == IF ss = <<>> THEN <<>> ELSE Head(ss) \o Flatten(Tail(ss))

RemoveAt(s, i) == SubSeq(s, 1, i - 1) \o SubSeq(s, i + 1, Len(s))

SelectIdx(s, Keep(_)) ==
    LET F[i \in 0..Len(s)] ==
            IF i = 0 THEN <<>>
            ELSE IF Keep(i) THEN Append(F[i - 1], s[i]) ELSE F[i - 1]
    IN  F[Len(s)]

Put(f, k, v) == [x \in DOMAIN f \cup {k} |-> IF x = k THEN v ELSE f[x]]

Drop(f, k) == [x \in DOMAIN f \ {k} |-> f[x]]

(***************************************************************************)
(* TokenCounter (src/app/utils/token_counter.py).  A text is a sequence of *)
(* symbols and the tokenizer gives one token per symbol.                   *)
(***************************************************************************)
CountTokens(text) == Len(text)

\* count_message_tokens over Message.to_openai_format(): the role string,
\* the content string and, when present, the tool_call_id string are
\* counted; the tool_calls list holds no text blocks and counts nothing.
CountMessageTokens(m) ==
    MessageOverhead
    + 1
    + CountTokens(m.content)
    + (IF m.tool_call_id # NoId THEN 1 ELSE 0)
    + AssistantPriming

(***************************************************************************)
(* Message (src/app/models/schemas.py).                                    *)
(***************************************************************************)
Message(id, role, content, tool_calls, tool_call_id) ==
    [id |-> id, role |-> role, content |-> content,
     tool_calls |-> tool_calls, tool_call_id |-> tool_call_id,
     token_count |-> 0]

TODO_SYSTEM_PROMPT == <<"manage_todo_list">>

HasTodoPrompt(messages) ==
    \E i \in 1..Len(messages) :
        messages[i].role = "system" /\ messages[i].content = TODO_SYSTEM_PROMPT

(***************************************************************************)
(* ContextWindow (src/app/memory/context.py).  A window is a record        *)
(* [hot, warm, cold, current_tokens, index]; a segment is a record         *)
(* [messages, token_count, priority, is_locked, summary].  Positions are   *)
(* 1-based here where the code is 0-based.                                 *)
(***************************************************************************)
AvailableTokens == MaxContextTokens - ReservedTokens

EmptyWindow ==
    [hot |-> <<>>, warm |-> <<>>, cold |-> <<>>, current_tokens |-> 0,
     index |-> <<>>]

RemainingTokens(cw) == AvailableTokens - cw.current_tokens

\* usage_ratio >= pct / 100
UsageAtLeast(cw, pct) == cw.current_tokens * 100 >= pct * AvailableTokens

\* usage_ratio <= pct / 100
UsageAtMost(cw, pct) == cw.current_tokens * 100 <= pct * AvailableTokens

ShouldCreateNewSegment(cw) ==
    IF cw.hot = <<>> THEN TRUE
    ELSE LET last == cw.hot[Len(cw.hot)]
         IN  Len(last.messages) >= SegmentMaxMessages \/ last.is_locked

\* ContextWindow.add_message, the update of segments, index and tokens
CWPlace(cw, msg, hot2) ==
    [cw |-> [cw EXCEPT
                !.hot = hot2,
                !.index = Put(cw.index, msg.id,
                              <<"hot", Len(hot2), Len(hot2[Len(hot2)].messages)>>),
                !.current_tokens = @ + msg.token_count],
     added |-> TRUE,
     message |-> msg]

\* ContextWindow.add_message from the overflow check on; msg carries its
\* token count
CWAddCounted(cw, msg, priority, lock) ==
    IF msg.token_count > RemainingTokens(cw)
    THEN [cw |-> cw, added |-> FALSE, message |-> msg]
    ELSE CWPlace(cw, msg,
                 IF cw.hot = <<>> \/ ShouldCreateNewSegment(cw)
                 THEN Append(cw.hot,
                             [messages |-> <<msg>>,
                              token_count |-> msg.token_count,
                              priority |-> priority, is_locked |-> lock,
                              summary |-> NoSummary])
                 ELSE [cw.hot EXCEPT
                          ![Len(cw.hot)].messages = Append(@, msg),
                          ![Len(cw.hot)].token_count = @ + msg.token_count])

\* ContextWindow.add_message: [cw, added, message]
CWAddMessage(cw, message, priority, lock) ==
    CWAddCounted(cw, [message EXCEPT !.token_count = CountMessageTokens(message)],
                 priority, lock)

\* ContextWindow.get_active_messages
GetActiveMessages(cw) ==
    Flatten([i \in 1..Len(cw.hot) |-> cw.hot[i].messages])

\* the index entries of one segment's messages, rewritten to (layer, pos, i)
ReindexSegment(index, segment, layer, pos) ==
    LET ids == {segment.messages[i].id : i \in 1..Len(segment.messages)}
        \* a later message of the same id overwrites an earlier one
        last(id) == CHOOSE i \in 1..Len(segment.messages) :
                        /\ segment.messages[i].id = id
                        /\ \A j \in (i + 1)..Len(segment.messages) :
                               segment.messages[j].id # id
    IN  [x \in DOMAIN index \cup ids |->
            IF x \in ids THEN <<layer, pos, last(x)>> ELSE index[x]]

\* ContextWindow.move_to_warm (segment_index 1-based)
MoveToWarm(cw, segment_index) ==
    IF segment_index > Len(cw.hot) THEN cw
    ELSE LET segment == cw.hot[segment_index]
             warm2 == Append(cw.warm, segment)
         IN  [cw EXCEPT
                 !.hot = RemoveAt(cw.hot, segment_index),
                 !.warm = warm2,
                 !.index = ReindexSegment(cw.index, segment, "warm", Len(warm2))]

\* faulty variant of MoveToCold: current_tokens is left as it is when the
\* summary replaces the token count of the segment
MoveToColdSameTokens(cw, segment_index, summary) ==
    IF segment_index > Len(cw.warm) THEN cw
    ELSE LET segment == cw.warm[segment_index]
             seg2 == IF summary # NoSummary
                     THEN [segment EXCEPT
                              !.summary = summary,
                              !.token_count = CountTokens(summary) + ColdOverhead]
                     ELSE segment
             cold2 == Append(cw.cold, seg2)
         IN  [cw EXCEPT
                 !.warm = RemoveAt(cw.warm, segment_index),
                 !.cold = cold2,
                 !.index = ReindexSegment(cw.index, seg2, "cold", Len(cold2))]

\* ContextWindow.move_to_cold (segment_index 1-based)
MoveToCold(cw, segment_index, summary) ==
    IF segment_index > Len(cw.warm) THEN cw
    ELSE LET segment == cw.warm[segment_index]
             seg2 == IF summary # NoSummary
                     THEN [segment EXCEPT
                              !.summary = summary,
                              !.token_count = CountTokens(summary) + ColdOverhead]
                     ELSE segment
             cold2 == Append(cw.cold, seg2)
         IN  [cw EXCEPT
                 !.warm = RemoveAt(cw.warm, segment_index),
                 !.cold = cold2,
                 !.current_tokens = @ - (segment.token_count - seg2.token_count),
                 !.index = ReindexSegment(cw.index, seg2, "cold", Len(cold2))]

\* ContextWindow.remove_message, the index afterwards: the entry of the
\* message is deleted, the messages behind it in the segment are re-entered
RemoveReindexed(index, message_id, seg2, layer, seg_idx, msg_idx) ==
    LET behind == {seg2.messages[i].id : i \in msg_idx..Len(seg2.messages)}
        last(id) == CHOOSE i \in msg_idx..Len(seg2.messages) :
                        /\ seg2.messages[i].id = id
                        /\ \A j \in (i + 1)..Len(seg2.messages) :
                               seg2.messages[j].id # id
    IN  [x \in (DOMAIN index \ {message_id}) \cup behind |->
            IF x \in behind THEN <<layer, seg_idx, last(x)>> ELSE index[x]]

\* ContextWindow.remove_message, once the index entry <<layer, seg_idx,
\* msg_idx>> was found to name a message of a hot or warm segment
RemoveAtEntry(cw, message_id, layer, seg_idx, msg_idx) ==
    LET segments == IF layer = "hot" THEN cw.hot ELSE cw.warm
        seg2 == [segments[seg_idx] EXCEPT
                    !.messages = RemoveAt(@, msg_idx),
                    !.token_count =
                        @ - segments[seg_idx].messages[msg_idx].token_count]
        removed == segments[seg_idx].messages[msg_idx]
    IN  [cw EXCEPT
            !.hot = IF layer = "hot" THEN [@ EXCEPT ![seg_idx] = seg2] ELSE @,
            !.warm = IF layer = "warm" THEN [@ EXCEPT ![seg_idx] = seg2] ELSE @,
            !.current_tokens = @ - removed.token_count,
            !.index = RemoveReindexed(@, message_id, seg2, layer, seg_idx, msg_idx)]

\* ContextWindow.remove_message; the index entry is followed as it is, also
\* when segments were moved since it was written
RemoveMessage(cw, message_id) ==
    IF message_id \notin DOMAIN cw.index THEN cw
    ELSE IF cw.index[message_id][1] \notin {"hot", "warm"} THEN cw
    ELSE IF cw.index[message_id][2]
                > Len(IF cw.index[message_id][1] = "hot" THEN cw.hot ELSE cw.warm)
    THEN cw
    ELSE IF cw.index[message_id][3]
                > Len((IF cw.index[message_id][1] = "hot" THEN cw.hot ELSE cw.warm)
                          [cw.index[message_id][2]].messages)
    THEN cw
    ELSE RemoveAtEntry(cw, message_id, cw.index[message_id][1],
                       cw.index[message_id][2], cw.index[message_id][3])

\* the text "[已压缩的历史消息]"
PlaceholderSummary == [i \in 1..PlaceholderTokens |-> "p"]

\* ContextWindow.clear, the rebuilt index
RECURSIVE RebuildIndex(_, _, _)
RebuildIndex(hot, index, k) ==
    IF k > Len(hot) THEN index
    ELSE RebuildIndex(hot, ReindexSegment(index, hot[k], "hot", k), k + 1)

\* ContextWindow.clear, from the kept hot segments on
CWCleared(hot2) ==
    [hot |-> hot2, warm |-> <<>>, cold |-> <<>>,
     current_tokens |-> SumSeq([i \in 1..Len(hot2) |-> hot2[i].token_count]),
     index |-> RebuildIndex(hot2, <<>>, 1)]

\* ContextWindow.clear
CWClear(cw, keep_locked) ==
    CWCleared(IF keep_locked THEN SelectSeq(cw.hot, LAMBDA s : s.is_locked)
              ELSE <<>>)

\* first loop of ContextWindow.optimize: warm -> cold while freed < tokens_to_free
RECURSIVE OptimizeWarm(_, _, _)
\* freed += segment.token_count, read after move_to_cold rewrote it
WarmMoved(cw2, freed, tokens_to_free) ==
    OptimizeWarm(cw2, freed + cw2.cold[Len(cw2.cold)].token_count, tokens_to_free)

OptimizeWarm(cw, freed, tokens_to_free) ==
    IF cw.warm # <<>> /\ freed < tokens_to_free
    THEN WarmMoved(MoveToCold(cw, 1, PlaceholderSummary), freed, tokens_to_free)
    ELSE [cw |-> cw, freed |-> freed]

\* second loop of ContextWindow.optimize: hot -> warm, non-locked only
RECURSIVE OptimizeHot(_, _, _)
OptimizeHot(cw, freed, tokens_to_free) ==
    IF cw.hot # <<>> /\ freed < tokens_to_free
    THEN LET non_locked == {i \in 1..Len(cw.hot) : ~cw.hot[i].is_locked}
         IN  IF non_locked = {} THEN cw
             ELSE OptimizeHot(MoveToWarm(cw, CHOOSE i \in non_locked :
                                                 \A j \in non_locked : i <= j),
                              freed, tokens_to_free)
    ELSE cw

\* ContextWindow.optimize, the second loop after the first
OptimizeRest(w, tokens_to_free) ==
    [cw |-> OptimizeHot(w.cw, w.freed, tokens_to_free), freed |-> w.freed]

\* ContextWindow.optimize, from tokens_to_free on
OptimizeFrom(cw, tokens_to_free) ==
    OptimizeRest(OptimizeWarm(cw, 0, tokens_to_free), tokens_to_free)

\* ContextWindow.optimize: [cw, freed]
Optimize(cw, target_pct) ==
    IF UsageAtMost(cw, target_pct) THEN [cw |-> cw, freed |-> 0]
    ELSE OptimizeFrom(cw, cw.current_tokens
                              - (AvailableTokens * target_pct) \div 100)

(***************************************************************************)
(* ImportanceScorer and SummaryCompressor (src/app/memory/compressor.py).  *)
(* Scores are in millionths.                                               *)
(***************************************************************************)
RECURSIVE Pow95(_)
Pow95(k) == IF k = 0 THEN 1000000 ELSE (Pow95(k - 1) * DecayPct) \div 100

KeywordWeight(word) ==
    CASE word = "error" -> 300000
      [] word = "important" -> 200000
      [] word = "critical" -> 300000
      [] word = "remember" -> 200000
      [] word = "key" -> 150000
      [] word = "decision" -> 250000
      [] word = "conclusion" -> 200000
      [] word = "result" -> 150000
      [] OTHER -> 0

Keywords ==
    {"error", "important", "critical", "remember", "key", "decision",
     "conclusion", "result"}

RECURSIVE SumWeights(_)
SumWeights(ws) ==
    IF ws = {} THEN 0
    ELSE LET w == CHOOSE x \in ws : TRUE
         IN  KeywordWeight(w) + SumWeights(ws \ {w})

KeywordScore(content) ==
    SumWeights({w \in Keywords : \E i \in 1..Len(content) : content[i] = w})

Min(a, b) == IF a <= b THEN a ELSE b

RoleWeight(role) ==
    CASE role = "system" -> 1000000
      [] role = "user" -> 800000
      [] role = "assistant" -> 600000
      [] OTHER -> 500000

\* ImportanceScorer.score; position is 1-based, importance_score is the
\* Message default 1.0 (no code path of the agent sets another value)
Score(message, position, total) ==
    LET base_score == 1000000
        position_factor == Pow95(total - position)
        tool_bonus == IF message.tool_calls # <<>> THEN 200000 ELSE 0
        final_score ==
              (base_score * 3) \div 10
            + (position_factor * 3) \div 10
            + (RoleWeight(message.role) * 2) \div 10
            + (Min(KeywordScore(message.content), 300000) * 15) \div 100
            + tool_bonus
    IN  Min(1000000, final_score)

\* the retention rule of SummaryCompressor.compress
Keeps(messages, i) ==
    \/ messages[i].role = "system"
    \/ i > Len(messages) - KeepRecent
    \/ Score(messages[i], i, Len(messages)) >= ScoreThreshold

\* SummaryCompressor._generate_summary: the summary stands for the messages
\* it was produced from
GenerateSummary(messages) == [i \in 1..Len(messages) |-> messages[i].id]

\* SummaryCompressor.compress, from messages_to_summarize on
Compressed(retained, to_summarize) ==
    [retained |-> retained,
     summary |-> IF to_summarize # <<>> THEN GenerateSummary(to_summarize)
                 ELSE NoSummary]

\* SummaryCompressor.compress: [retained, summary]
Compress(messages) ==
    IF Len(messages) < MinCompressLen
    THEN [retained |-> messages, summary |-> NoSummary]
    ELSE Compressed(SelectIdx(messages, LAMBDA i : Keeps(messages, i)),
                    SelectIdx(messages, LAMBDA i : ~Keeps(messages, i)))

TotalTokens(messages) ==
    SumSeq([i \in 1..Len(messages) |-> messages[i].token_count])

\* ContextCompressor.should_compress
ShouldCompress(messages, max_tokens) ==
    TotalTokens(messages) * 100 >= CompressionThresholdPct * max_tokens

\* ContextCompressor.compress_context: [retained, summary]
CompressContext(messages, max_tokens) ==
    IF ~ShouldCompress(messages, max_tokens)
    THEN [retained |-> messages, summary |-> NoSummary]
    ELSE Compress(messages)

(***************************************************************************)
(* MemoryManager (src/app/memory/manager.py).  A session is a record       *)
(* [messages, summary, status].                                            *)
(***************************************************************************)
CalculatePriority(message) ==
    (CASE message.role = "system" -> 10
       [] message.role = "user" -> 7
       [] message.role = "assistant" -> 5
       [] message.role = "tool" -> 3
       [] OTHER -> 5)
    + (IF message.tool_calls # <<>> THEN 2 ELSE 0)

\* MemoryManager.create_session with a system prompt, from the counted
\* system message on
SessionWith(system_msg) ==
    [session |-> [messages |-> <<system_msg>>, summary |-> NoSummary,
                  status |-> "pending"],
     cw |-> CWAddMessage(EmptyWindow, system_msg, 10, TRUE).cw]

CountedMessage(message) ==
    [message EXCEPT !.token_count = CountMessageTokens(message)]

\* MemoryManager.create_session: [session, cw]
NewSession(sid, with_prompt) ==
    IF with_prompt
    THEN SessionWith(CountedMessage(
             Message(<<0, sid>>, "system", TODO_SYSTEM_PROMPT, <<>>, NoId)))
    ELSE [session |-> [messages |-> <<>>, summary |-> NoSummary,
                       status |-> "pending"],
          cw |-> EmptyWindow]

\* MemoryManager._handle_overflow
RECURSIVE DrainWarm(_)
DrainWarm(cw) ==
    IF cw.warm # <<>> THEN DrainWarm(MoveToCold(cw, 1, PlaceholderSummary))
    ELSE cw

HandleOverflow(cw) == Optimize(DrainWarm(cw), 50).cw

\* the re-insertion loop of MemoryManager._trigger_compression
RECURSIVE ReAdd(_, _)
ReAdd(cw, messages) ==
    IF messages = <<>> THEN cw
    ELSE ReAdd(CWAddMessage(cw, Head(messages),
                            CalculatePriority(Head(messages)), FALSE).cw,
               Tail(messages))

\* MemoryManager._trigger_compression, from the compressor's result c on
Recompressed(session, cw, c) ==
    [session |-> [session EXCEPT
                     !.summary = IF c.summary # NoSummary
                                 THEN @ \o c.summary ELSE @,
                     !.messages = c.retained],
     cw |-> ReAdd(CWClear(cw, TRUE), c.retained)]

\* MemoryManager._trigger_compression: [session, cw]
TriggerCompression(session, cw) ==
    Recompressed(session, cw,
                 CompressContext(GetActiveMessages(cw), MaxContextTokens))

\* MemoryManager.add_message, the value returned after compression ran
MMCompressed(t, a) ==
    [session |-> t.session, cw |-> t.cw, added |-> a.added,
     message |-> a.message, compressed |-> TRUE,
     input |-> GetActiveMessages(a.cw)]

\* MemoryManager.add_message, the compression check; a is the result of the
\* last context.add_message
MMCheckCompression(session1, a) ==
    IF UsageAtLeast(a.cw, CompressionThresholdPct)
    THEN MMCompressed(TriggerCompression(session1, a.cw), a)
    ELSE [session |-> session1, cw |-> a.cw, added |-> a.added,
          message |-> a.message, compressed |-> FALSE, input |-> <<>>]

\* MemoryManager.add_message, the overflow handling; first is the result of
\* the first context.add_message
MMRetry(session1, cw, msg, first) ==
    MMCheckCompression(
        session1,
        IF first.added THEN first
        ELSE CWAddCounted(HandleOverflow(cw), msg, CalculatePriority(msg), FALSE))

\* MemoryManager.add_message from session.add_message on; msg carries its
\* token count
MMAddCounted(session, cw, msg) ==
    MMRetry([session EXCEPT !.messages = Append(@, msg)], cw, msg,
            CWAddCounted(cw, msg, CalculatePriority(msg), FALSE))

\* MemoryManager.add_message: [session, cw, added, message]
MMAddMessage(session, cw, message) ==
    MMAddCounted(session, cw, CountedMessage(message))

\* Message.to_openai_format: the role, the content and, when set, the tool
\* calls and the tool call id; neither the id nor the token count go along
ToOpenAIFormat(message) ==
    [role |-> message.role, content |-> message.content,
     tool_calls |-> message.tool_calls, tool_call_id |-> message.tool_call_id]

\* MemoryManager.get_openai_messages of a session
GetOpenAIMessages(session) ==
    (IF session.summary # NoSummary
     THEN <<[role |-> "system", content |-> <<"[summary]">> \o session.summary,
             tool_calls |-> <<>>, tool_call_id |-> NoId]>>
     ELSE <<>>)
    \o [i \in 1..Len(session.messages) |-> ToOpenAIFormat(session.messages[i])]

(***************************************************************************)
(* Tool calls.  A tool call is a record [id, name, arguments]; arguments   *)
(* is the JSON text as a sequence of symbols.                              *)
(***************************************************************************)
TODO_TOOL == "manage_todo_list"
REGULAR_TOOL == "calculator"
INTERRUPTED_MARK == <<"[interrupted]">>     \* the text "[已中断]"

\* json.loads(arguments): "object" for "{}", "nonobject" for "[]" (valid
\* JSON that is no dict), "invalid" for a text that raises JSONDecodeError
JsonKind(arguments) ==
    IF arguments = <<"{", "}">> THEN "object"
    ELSE IF arguments = <<"[", "]">> THEN "nonobject"
    ELSE "invalid"

ToolCall(id, name, arguments) ==
    [id |-> id, name |-> name, arguments |-> arguments]

TodoCalls(tool_calls) == SelectSeq(tool_calls, LAMBDA tc : tc.name = TODO_TOOL)

RegularCalls(tool_calls) == SelectSeq(tool_calls, LAMBDA tc : tc.name # TODO_TOOL)

\* the tool_calls of a non-streamed LLM response of run r, call number n
ResponseToolCalls(r, n) ==
    LET R(i) == ToolCall(<<r, n, i>>, REGULAR_TOOL, <<"{", "}">>)
        T(i, args) == ToolCall(<<r, n, i>>, TODO_TOOL, args)
    IN  { <<>>,
          <<T(1, <<"{", "}">>)>>,
          <<R(1), T(2, <<"{", "}">>)>>,
          <<T(1, <<"[", "]">>)>> }

\* the provider streams of run r, call number n: each a sequence of deltas
Content(text) == [kind |-> "content", text |-> text]

Thinking(text) == [kind |-> "thinking", text |-> text]

Fragment(index, id, name, arguments) ==
    [kind |-> "tool", index |-> index, id |-> id, name |-> name,
     arguments |-> arguments]

Truncate(s, n) == IF Len(s) <= n THEN s ELSE SubSeq(s, 1, n)

ProviderStreams(r, n) ==
    { Truncate(s, MaxDeltas) : s \in
        { <<Content(<<"a">>), Content(<<"b">>), Thinking(<<"t">>)>>,
          <<Thinking(<<"t">>), Content(<<"a">>),
            Fragment(0, <<r, n, 1>>, REGULAR_TOOL, <<"{", "}">>)>>,
          <<Fragment(0, <<r, n, 1>>, REGULAR_TOOL, <<"{", "}">>),
            Fragment(1, <<r, n, 2>>, TODO_TOOL, <<"{", "}">>),
            Content(<<"a">>)>>,
          <<Fragment(0, <<r, n, 1>>, TODO_TOOL, <<"{">>),
            Fragment(0, NoId, "", <<"}">>),
            Fragment(1, <<r, n, 2>>, REGULAR_TOOL, <<"{", "}">>)>>,
          <<Fragment(0, <<r, n, 1>>, TODO_TOOL, <<"[">>),
            Fragment(0, NoId, "", <<"]">>)>>,
          <<Fragment(0, <<r, n, 1>>, TODO_TOOL, <<"{", "}">>),
            Fragment(1, <<r, n, 2>>, TODO_TOOL, <<"[", "]">>)>>,
          <<Fragment(1, <<r, n, 2>>, REGULAR_TOOL, <<"{", "}">>)>>,
          <<Fragment(0, NoId, REGULAR_TOOL, <<"{", "}">>)>> } }

\* chat_stream, the assembly of one tool-call fragment (index is 0-based)
RECURSIVE ExtendTo(_, _)
ExtendTo(tool_calls, n) ==
    IF Len(tool_calls) >= n THEN tool_calls
    ELSE ExtendTo(Append(tool_calls, ToolCall(NoId, "", <<>>)), n)

\* faulty variant of ApplyFragment: the fragment goes to the entry of the
\* call that started last, a fragment with an id starting a new entry
ApplyFragmentByArrival(tool_calls, tc) ==
    LET ext == IF tc.id # NoId \/ tool_calls = <<>>
               THEN Append(tool_calls, ToolCall(NoId, "", <<>>))
               ELSE tool_calls
        i == Len(ext)
    IN  [ext EXCEPT
            ![i].id = IF tc.id # NoId THEN tc.id ELSE @,
            ![i].name = IF tc.name # "" THEN tc.name ELSE @,
            ![i].arguments = @ \o tc.arguments]

ApplyFragment(tool_calls, tc) ==
    LET ext == ExtendTo(tool_calls, tc.index + 1)
        i == tc.index + 1
    IN  [ext EXCEPT
            ![i].id = IF tc.id # NoId THEN tc.id ELSE @,
            ![i].name = IF tc.name # "" THEN tc.name ELSE @,
            ![i].arguments = @ \o tc.arguments]

(***************************************************************************)
(* ToolExecutor.  A ToolResult is [tool_call_id, name, success, content,   *)
(* error]; how is what the awaited tool.execute does: "returns", "raises"  *)
(* or "times_out".                                                         *)
(***************************************************************************)
UNKNOWN_TOOL == "no_such_tool"

\* ToolRegistry.get finds the tool
Registered(name) == name \in {REGULAR_TOOL, TODO_TOOL}

Failure(tool_call, error) ==
    [tool_call_id |-> tool_call.id, name |-> tool_call.name,
     success |-> FALSE, content |-> <<>>, error |-> error]

\* _execute_single reaches the await of tool.execute: the arguments parse
\* and the tool is registered
ReachesTool(tool_call) ==
    JsonKind(tool_call.arguments) # "invalid" /\ Registered(tool_call.name)

\* _execute_single: the ToolResult of one call
ExecuteSingle(tool_call, how) ==
    IF JsonKind(tool_call.arguments) = "invalid"
    THEN Failure(tool_call, <<"Invalid JSON arguments">>)
    ELSE IF ~Registered(tool_call.name)
    THEN Failure(tool_call, <<"Tool not found">>)
    ELSE IF JsonKind(tool_call.arguments) = "nonobject"
    THEN Failure(tool_call, <<"TypeError">>)
    ELSE IF how = "times_out"
    THEN Failure(tool_call, <<"Tool execution timed out">>)
    ELSE IF how = "raises"
    THEN Failure(tool_call, <<"exception">>)
    ELSE [tool_call_id |-> tool_call.id, name |-> tool_call.name,
          success |-> TRUE, content |-> <<"r">>, error |-> <<>>]

\* faulty variant of GatherResults: the results are returned in the order in
\* which the calls completed
GatherInCompletionOrder(results, order) ==
    [k \in 1..Len(order) |-> results[order[k]]]

\* ToolExecutor.execute, what asyncio.gather returns: the result of task i
\* at position i, whatever the order of completion
GatherResults(results, order) ==
    [i \in 1..Len(results) |-> results[i]]

(***************************************************************************)
(* TodoRepository.  The table session_todo_lists is a sequence of rows     *)
(* [session_id, title, revision, status, items]; the items of a row are    *)
(* [label, status, order_index] in the order of insertion.  The log of a   *)
(* session lists the calls made on it: [op, run, call, title, items,       *)
(* revision], revision being that of the snapshot the call returned.       *)
(***************************************************************************)
TodoItem(label, status, order_index) ==
    [label |-> label, status |-> status, order_index |-> order_index]

\* TodoRepository._load_or_raise / the select of get_todo_list
HasList(table, sid) == \E k \in 1..Len(table) : table[k].session_id = sid

RowIndex(table, sid) == CHOOSE k \in 1..Len(table) : table[k].session_id = sid

\* the orders in which the items of a row can be read sorted by order_index:
\* permutations p with order_index never decreasing; the order of items
\* with equal order_index is the database's choice
SortedOrders(items) ==
    {p \in [1..Len(items) -> 1..Len(items)] :
        /\ \A i, j \in 1..Len(items) : i # j => p[i] # p[j]
        /\ \A i \in 1..(Len(items) - 1) :
               items[p[i]].order_index <= items[p[i + 1]].order_index}

\* TodoRepository._to_schema for one order of reading
ToSchema(row, p) ==
    [title |-> row.title, revision |-> row.revision,
     items |-> [k \in 1..Len(row.items) |-> row.items[p[k]]]]

\* TodoRepository.get_todo_list: the snapshots it can return, none if the
\* session has no list
GetTodoList(table, sid) ==
    IF ~HasList(table, sid) THEN {}
    ELSE {ToSchema(table[RowIndex(table, sid)], p) :
              p \in SortedOrders(table[RowIndex(table, sid)].items)}

\* TodoRepository.create_or_replace, the row it inserts
NewRow(sid, title, items) ==
    [session_id |-> sid, title |-> title, revision |-> 1, status |-> "active",
     items |-> [idx \in 1..Len(items) |->
                   TodoItem(items[idx].label, items[idx].status,
                            IF items[idx].order_index # 0
                            THEN items[idx].order_index ELSE idx)]]

\* TodoRepository.create_or_replace: the table after the commit
CreateOrReplace(table, sid, title, items) ==
    Append(SelectSeq(table, LAMBDA row : row.session_id # sid),
           NewRow(sid, title, items))

\* TodoRepository.set_item_status; item is the position of the item whose
\* id is given
SetItemStatus(table, sid, item, status) ==
    [table EXCEPT ![RowIndex(table, sid)] =
        [@ EXCEPT !.items[item].status = status, !.revision = @ + 1]]

\* TodoRepository.advance_step, the statuses after the loop; p is the order
\* in which sorted() goes through the items
AdvancedItems(items, p) ==
    LET pending == {k \in 1..Len(items) : items[p[k]].status = "pending"}
        next_pending == IF pending = {} THEN 0
                        ELSE p[CHOOSE k \in pending : \A j \in pending : k <= j]
    IN  [i \in 1..Len(items) |->
            IF items[i].status = "running"
            THEN [items[i] EXCEPT !.status = "completed"]
            ELSE IF i = next_pending
            THEN [items[i] EXCEPT !.status = "running"]
            ELSE items[i]]

\* TodoRepository.advance_step
AdvanceStep(table, sid, p) ==
    [table EXCEPT ![RowIndex(table, sid)] =
        [@ EXCEPT !.items = AdvancedItems(@, p), !.revision = @ + 1]]

\* TodoRepository.complete_all
CompleteAll(table, sid) ==
    [table EXCEPT ![RowIndex(table, sid)] =
        [@ EXCEPT !.items = [i \in 1..Len(@) |->
                                [@[i] EXCEPT !.status = "completed"]],
                  !.status = "completed",
                  !.revision = @ + 1]]

\* TodoRepository.clear
ClearTodo(table, sid) == SelectSeq(table, LAMBDA row : row.session_id # sid)

\* an entry of the log, for the call that left the table as it is
Logged(table, sid, op, run, call, title, items) ==
    [op |-> op, run |-> run, call |-> call, title |-> title, items |-> items,
     revision |-> IF HasList(table, sid)
                  THEN table[RowIndex(table, sid)].revision ELSE 0]

(***************************************************************************)
(* ChatAgent._handle_todo_tool_call, the part after the arguments parsed.  *)
(* The parsed arguments are [title, items], the items [label, status] with *)
(* the status as the LLM wrote it.                                         *)
(***************************************************************************)
\* ChatAgent._normalise_status
NormaliseStatus(raw) ==
    IF raw \in {"running", "in-progress", "in_progress", "active", "current"}
    THEN "running"
    ELSE IF raw \in {"completed", "done", "finished", "complete"}
    THEN "completed"
    ELSE "pending"

\* the loop that builds todo_items
BuildTodoItems(items_raw) ==
    [idx \in 1..Len(items_raw) |->
        TodoItem(items_raw[idx].label, NormaliseStatus(items_raw[idx].status), idx)]

\* "at least one item must be running": the first pending item is set to
\* running when no item is
EnsureRunning(todo_items) ==
    LET pending == {i \in 1..Len(todo_items) : todo_items[i].status = "pending"}
    IN  IF /\ todo_items # <<>>
           /\ \A i \in 1..Len(todo_items) : todo_items[i].status # "running"
           /\ pending # {}
        THEN [todo_items EXCEPT
                 ![CHOOSE i \in pending : \A j \in pending : i <= j].status
                     = "running"]
        ELSE todo_items

\* the todo_items that _handle_todo_tool_call hands to the TodoService
TodoItemsOf(args) == EnsureRunning(BuildTodoItems(args.items))

\* the TodoRepository as a call sees it: td = [table, log]
TodoCommitted(td, sid, op, run, call, title, items, table2) ==
    [table |-> table2,
     log |-> [td.log EXCEPT ![sid] =
                 Append(@, Logged(table2, sid, op, run, call, title, items))]]

\* TodoService.create_or_replace_with_items
SaveTodo(td, sid, run, call, title, items) ==
    TodoCommitted(td, sid, "create_or_replace", run, call, title, items,
                  CreateOrReplace(td.table, sid, title, items))

\* json.loads of the arguments of a manage_todo_list call that are a JSON
\* object: the text "{}" has no title and no items
ParseTodoArgs(arguments) == [title |-> <<>>, items |-> <<>>]

(***************************************************************************)
(* State.                                                                  *)
(***************************************************************************)
VARIABLES
    sessions,               \* MemoryManager._sessions
    context_windows,        \* MemoryManager._context_windows
    interrupt_events,       \* ChatAgent._interrupt_events: session -> the run
                            \* whose asyncio.Event is registered
    loop_interrupt_events,  \* AgentLoop._interrupt_events: session -> is_set
    agent_states,           \* AgentLoop._agent_states: session -> status
    runs,                   \* the calls of chat / chat_stream, see IdleRun
    last_interrupt,         \* the interrupt() call of the last step, if it was
                            \* one: what it saw and what it returned
    todo_table,             \* the table session_todo_lists
    todo_log,               \* session -> the calls made on its todo list
    window,                 \* a ContextWindow exercised on its own, and the
                            \* number of operations made on it
    compression,            \* a call of SummaryCompressor.compress: the list
                            \* it was given and what it returned
    queue,                  \* an InMemoryQueueBackend and what its dequeuer
                            \* received
    sandbox,                \* a CodeExecutor, the containers of the Docker
                            \* daemon and the calls of execute
    memory_call,            \* the last call made on the MemoryManager alone
    assembly,               \* the tool-call fragments of one LLM response and
                            \* the tool_calls list assembled from them
    pipeline,               \* a request on the queued AgentLoop path: the
                            \* attempts of RetryMiddleware and the LLM calls
    agent_loop,             \* an AgentLoop: its state, its flags and its
                            \* _main_loop tasks
    backend,                \* an InMemoryQueueBackend used by concurrent
                            \* coroutines
    executions              \* the calls of ToolExecutor.execute exercised on
                            \* their own, see IdleExecution

vars ==
    <<sessions, context_windows, interrupt_events, loop_interrupt_events,
      agent_states, runs, last_interrupt, todo_table, todo_log, window,
      compression, queue, sandbox, memory_call, assembly, pipeline,
      agent_loop, backend, executions>>

\* the state of the runs, of the todo lists, of the agent as a whole, and
\* the components exercised on their own
run_vars ==
    <<sessions, context_windows, interrupt_events, loop_interrupt_events,
      agent_states, runs, last_interrupt>>

todo_vars == <<todo_table, todo_log>>

agent_vars == <<run_vars, todo_vars>>

unit_vars == <<compression, queue, sandbox>>

component_vars == <<assembly, pipeline, agent_loop, backend>>

standalone_vars ==
    <<window, executions, unit_vars, memory_call, component_vars>>

\* One call of chat or chat_stream.  pc is the point where the coroutine is
\* suspended:
\*   "idle"          not called yet
\*   "session_sent"  chat_stream, suspended at the yield of the session chunk
\*   "llm"           awaiting client.chat.completions.create
\*   "streaming"     awaiting the next delta of the provider stream
\*   "todo_flush"    chat_stream, suspended at the yield of todo_list chunks
\*   "tools"         awaiting tool_executor.execute
\*   "done_sent"     chat_stream, suspended at the yield of the done chunk
\*   "finished"      returned, raised, or generator exhausted
\* stored, tool_execs, cut and tool_results are history: the messages the run
\* appended, the tool batches it started, the counters at the moment its
\* signal was set while it was consuming deltas, and the ToolResults that
\* tool_executor.execute returned to it.
IdleRun ==
    [id |-> 0, pc |-> "idle", mode |-> "none", given_id |-> None,
     session_id |-> None,
     interrupt_set |-> FALSE, iterations |-> 0, llm_calls |-> 0,
     has_assistant |-> FALSE, tool_calls |-> <<>>, pending_tool_calls |-> FALSE,
     content |-> <<>>, thinking |-> <<>>, deltas |-> <<>>,
     stream |-> "none", chunks |-> <<>>, outcome |-> "none",
     stored |-> <<>>, tool_execs |-> 0, cut |-> <<>>, tool_results |-> <<>>]

\* One call of ToolExecutor.execute.  state is "idle", "running" or
\* "returned"; semaphore counts the free permits of the call's Semaphore;
\* tasks[i] is "waiting" (for the semaphore), "in_flight" (awaiting
\* tool.execute) or "done"; order lists the tasks as they completed.
IdleExecution ==
    [state |-> "idle", tool_calls |-> <<>>, semaphore |-> 0, tasks |-> <<>>,
     how |-> <<>>, results |-> <<>>, order |-> <<>>, final |-> <<>>]

ExecIds == 1..MaxExecutes

NoCall == [session |-> None, registered |-> FALSE, result |-> FALSE,
           active |-> FALSE]

\* no call of SummaryCompressor.compress was made yet
NotCompressed == [called |-> FALSE, messages |-> <<>>, retained |-> <<>>,
                  summary |-> NoSummary]

\* InMemoryQueueBackend.__init__; last is what the last dequeue returned,
\* enqueued counts the calls of enqueue
NoMessage == [id |-> 0, priority |-> 0]

EmptyQueue ==
    [heap |-> <<>>, size |-> 0, last |-> NoMessage, accepted |-> TRUE,
     enqueued |-> 0]

\* a call of CodeExecutor.execute not made yet.  container is the local
\* variable of DockerSandboxManager.execute; creating and removing tell
\* that the thread of asyncio.to_thread running containers.create or
\* container.remove has not finished; pending is what execute returns once
\* the finally block is through
IdleCall ==
    [pc |-> "idle", code |-> <<>>, container |-> FALSE, creating |-> FALSE,
     removing |-> FALSE, status |-> "", error |-> <<>>, exit_code |-> 0,
     pending |-> ""]

SandboxCalls == 1..MaxSandboxCalls

\* CodeExecutor.__init__ and the Docker daemon: initialized is
\* CodeExecutor._initialized, ready is DockerSandboxManager._client and
\* _image_ready, containers are the containers the daemon holds, named by
\* the call that created them
NewSandbox ==
    [initialized |-> FALSE, ready |-> FALSE, containers |-> {},
     calls |-> [c \in SandboxCalls |-> IdleCall]]

\* no call was made on the MemoryManager yet; known tells whether the
\* MemoryManager held the session when the call was made, before is the
\* session.messages the call found, input the messages the call gave to the
\* compressor, created counts the sessions created, ops the calls
NoMemoryCall ==
    [op |-> "", session_id |-> None, returned |-> FALSE, compressed |-> FALSE,
     message_id |-> NoId, before |-> <<>>, input |-> <<>>, known |-> FALSE,
     created |-> 0, ops |-> 0]

\* no fragment of the response arrived yet; fragments are the ones applied
NoAssembly == [fragments |-> <<>>, tool_calls |-> <<>>]

\* no request was submitted to the AgentLoop yet.  pc is "idle", "llm" (the
\* handler awaits the LLM), "sleeping" (RetryMiddleware awaits
\* asyncio.sleep), "returned" or "raised"; attempt is the loop variable of
\* RetryMiddleware.process, invoked counts the calls of next_handler,
\* results lists how they ended (NoError, or the error raised), slept the
\* durations given to asyncio.sleep, raised what process raised; iteration
\* is agent_state.iteration and llm_calls counts the LLM requests made
NoError == <<>>

NoRequest ==
    [pc |-> "idle", max_retries |-> 0, delay |-> 0, attempt |-> 0,
     invoked |-> 0, results |-> <<>>, slept |-> <<>>, last_error |-> NoError,
     raised |-> NoError, iteration |-> 0, llm_calls |-> 0,
     status |-> "pending"]

\* AgentLoop.__init__: _state, the two control events, and the _main_loop
\* tasks created so far, each by the point where it is suspended: "created"
\* (not run yet), "sleeping" (asyncio.sleep of the pause branch), "dequeue"
\* (awaiting queue.dequeue) or "ended"; calls counts the calls of start,
\* stop, pause and resume
NewAgentLoop ==
    [state |-> "stopped", stop_event |-> FALSE, pause_event |-> FALSE,
     tasks |-> <<>>, calls |-> 0]

\* InMemoryQueueBackend.__init__, for concurrent callers: heap is the
\* PriorityQueue's list, size is _size, waiting are the dequeue calls
\* suspended in queue.get in the order of the queue's _getters, woken the
\* ones whose getter future was set and that have not run yet; puts counts
\* the messages put, calls the calls of enqueue, dequeue and clear
NewBackend ==
    [heap |-> <<>>, size |-> 0, waiting |-> <<>>, woken |-> {}, puts |-> 0,
     calls |-> 0]

Init ==
    /\ sessions = <<>>
    /\ context_windows = <<>>
    /\ interrupt_events = <<>>
    /\ loop_interrupt_events = <<>>
    /\ agent_states = <<>>
    /\ runs = [r \in RunIds |-> [IdleRun EXCEPT !.id = r]]
    /\ last_interrupt = NoCall
    /\ todo_table = <<>>
    /\ todo_log = [sid \in SessionIds |-> <<>>]
    /\ window = [cw |-> EmptyWindow, ops |-> 0, op |-> "", returned |-> 0,
                 before |-> 0]
    /\ compression = NotCompressed
    /\ queue = EmptyQueue
    /\ sandbox = NewSandbox
    /\ memory_call = NoMemoryCall
    /\ assembly = NoAssembly
    /\ pipeline = NoRequest
    /\ agent_loop = NewAgentLoop
    /\ backend = NewBackend
    /\ executions = [c \in ExecIds |-> IdleExecution]

Known(sid) == sid \in DOMAIN sessions

CanCreate == Cardinality(DOMAIN sessions) < MaxSessions

NewSessionId == Cardinality(DOMAIN sessions) + 1

(***************************************************************************)
(* The code of a run works on st = [run, session, cw, events, todo]: its   *)
(* own locals, its session and context window, _interrupt_events, and the  *)
(* TodoRepository.                                                         *)
(***************************************************************************)
Chunk(type, delta, st) ==
    [type |-> type, delta |-> delta, iteration |-> st.run.llm_calls,
     stored |-> Len(st.run.stored)]

Emit(st, type, delta) ==
    [st EXCEPT !.run.chunks = Append(@, Chunk(type, delta, st))]

\* await self.memory.add_message(session.id, message) of a run
AddMessage(st, role, content, tool_calls, tool_call_id) ==
    LET m == Message(<<st.run.id, Len(st.run.stored) + 1>>, role, content,
                     tool_calls, tool_call_id)
        a == MMAddMessage(st.session, st.cw, m)
    IN  [st EXCEPT
            !.session = a.session,
            !.cw = a.cw,
            !.run.stored = Append(@, [m EXCEPT !.token_count = CountMessageTokens(m)])]

\* the finally block of chat / chat_stream
Finally(st) ==
    [st EXCEPT
        !.events = IF st.run.session_id \in DOMAIN st.events
                   THEN Drop(st.events, st.run.session_id) ELSE @,
        !.run.pc = "finished"]

\* faulty variant of Raise: the failure of a streamed run reaches the
\* consumer without an error chunk
RaiseSilent(st, exc) ==
    Finally([st EXCEPT !.run.outcome = exc,
                       !.run.stream = IF @ = "open" THEN "failed" ELSE @])

\* an exception leaves the try block; api/chat.py event_generator turns it
\* into an error chunk for the consumer of a streamed run
Raise(st, exc) ==
    LET f == Finally([st EXCEPT !.run.outcome = exc,
                                !.run.stream = IF @ = "open" THEN "failed" ELSE @])
    IN  IF st.run.mode = "stream" THEN Emit(f, "error", <<exc>>) ELSE f

\* the code after the while loop
AfterLoop(st) ==
    IF st.run.mode = "chat"
    THEN IF st.run.interrupt_set
         THEN LET s1 == IF ~st.run.has_assistant
                        THEN [AddMessage(st, "assistant", INTERRUPTED_MARK, <<>>, NoId)
                                 EXCEPT !.run.has_assistant = TRUE]
                        ELSE st
              IN  Finally([s1 EXCEPT !.run.outcome = "interrupted"])
         ELSE IF ~st.run.has_assistant THEN Raise(st, "RuntimeError")
         ELSE IF st.run.tool_calls # <<>> THEN Raise(st, "RuntimeError")
         ELSE Finally([st EXCEPT !.run.outcome = "completed"])
    ELSE IF st.run.interrupt_set
         THEN [Emit(st, "done", INTERRUPTED_MARK) EXCEPT
                  !.run.outcome = "interrupted", !.run.pc = "done_sent"]
         ELSE IF st.run.pending_tool_calls THEN Raise(st, "RuntimeError")
         ELSE [Emit(st, "done", <<>>) EXCEPT
                  !.run.outcome = "completed", !.run.pc = "done_sent"]

\* faulty variant of LoopTop: the loop condition is off by one
LoopTopOffByOne(st) ==
    IF st.run.iterations <= MaxIterations /\ ~st.run.interrupt_set
    THEN [st EXCEPT !.run.llm_calls = @ + 1, !.run.pc = "llm"]
    ELSE AfterLoop(st)

\* the head of the while loop up to the LLM request
LoopTop(st) ==
    IF st.run.iterations < MaxIterations /\ ~st.run.interrupt_set
    THEN [st EXCEPT !.run.llm_calls = @ + 1, !.run.pc = "llm"]
    ELSE AfterLoop(st)

\* the end of the loop body: iterations += 1, then the head of the loop
NextIteration(st) == LoopTop([st EXCEPT !.run.iterations = @ + 1])

\* _handle_todo_tool_call: [raised, content, broadcast, st]
HandleTodoToolCall(st, tool_call) ==
    IF JsonKind(tool_call.arguments) = "invalid"
    THEN [raised |-> FALSE, content |-> <<"invalid_json">>,
          broadcast |-> FALSE, st |-> st]
    ELSE IF JsonKind(tool_call.arguments) = "nonobject"
    THEN [raised |-> TRUE, content |-> <<>>, broadcast |-> FALSE, st |-> st]
    ELSE [raised |-> FALSE, content |-> <<"saved">>, broadcast |-> TRUE,
          st |-> [st EXCEPT !.todo =
                     SaveTodo(@, st.run.session_id, st.run.id, tool_call.id,
                              ParseTodoArgs(tool_call.arguments).title,
                              TodoItemsOf(ParseTodoArgs(tool_call.arguments)))]]

\* the loop over the todo tool calls: [st, raised, todo_chunks]; a todo
\* chunk carries the place of its snapshot in the log of the session
RECURSIVE HandleTodoCalls(_, _, _)
\* the body of the loop after _handle_todo_tool_call returned h
TodoHandled(todo_tcs, todo_chunks, h) ==
    IF h.raised
    THEN [st |-> h.st, raised |-> TRUE, todo_chunks |-> todo_chunks]
    ELSE HandleTodoCalls(
             AddMessage(h.st, "tool", h.content, <<>>, Head(todo_tcs).id),
             Tail(todo_tcs),
             IF h.broadcast /\ h.st.run.mode = "stream"
             THEN Append(todo_chunks,
                         <<Len(h.st.todo.log[h.st.run.session_id])>>)
             ELSE todo_chunks)

HandleTodoCalls(st, todo_tcs, todo_chunks) ==
    IF todo_tcs = <<>>
    THEN [st |-> st, raised |-> FALSE, todo_chunks |-> todo_chunks]
    ELSE TodoHandled(todo_tcs, todo_chunks,
                     HandleTodoToolCall(st, Head(todo_tcs)))

\* the flush of the buffered todo_list chunks
RECURSIVE EmitTodoChunks(_, _)
EmitTodoChunks(st, todo_chunks) ==
    IF todo_chunks = <<>> THEN st
    ELSE EmitTodoChunks(Emit(st, "todo_list", Head(todo_chunks)),
                        Tail(todo_chunks))

\* the call of tool_executor.execute, or the end of the loop body when the
\* response held no regular tool call
StartTools(st) ==
    IF RegularCalls(st.run.tool_calls) # <<>>
    THEN [st EXCEPT !.run.pc = "tools", !.run.tool_execs = @ + 1]
    ELSE NextIteration(st)

\* the loop body after the loop over the todo tool calls, which came to t
AfterTodoCalls(t) ==
    IF t.raised THEN Raise(t.st, "AttributeError")
    ELSE IF t.todo_chunks # <<>>
    THEN [EmitTodoChunks(t.st, t.todo_chunks) EXCEPT !.run.pc = "todo_flush"]
    ELSE StartTools(t.st)

\* the loop body from the stored assistant message with tool_calls on
DispatchToolCalls(st) ==
    AfterTodoCalls(HandleTodoCalls(st, TodoCalls(st.run.tool_calls), <<>>))

\* chat: the loop body from the LLM response on
ChatAfterResponse(st, content, tool_calls) ==
    LET s1 == [AddMessage(st, "assistant", content, tool_calls, NoId) EXCEPT
                  !.run.has_assistant = TRUE, !.run.tool_calls = tool_calls]
    IN  IF tool_calls = <<>> THEN AfterLoop(s1) ELSE DispatchToolCalls(s1)

\* faulty variant of StreamAfterDeltas: the signal is not looked at after the
\* assistant message is stored
StreamAfterDeltasNoBreak(st) ==
    LET s1 == [AddMessage(st, "assistant", st.run.content, st.run.tool_calls, NoId)
                  EXCEPT !.run.has_assistant = TRUE]
    IN  IF s1.run.tool_calls = <<>>
        THEN AfterLoop([s1 EXCEPT !.run.pending_tool_calls = FALSE])
        ELSE DispatchToolCalls([s1 EXCEPT !.run.pending_tool_calls = TRUE])

\* chat_stream: the loop body from the end of the async for on
StreamAfterDeltas(st) ==
    LET s1 == [AddMessage(st, "assistant", st.run.content, st.run.tool_calls, NoId)
                  EXCEPT !.run.has_assistant = TRUE]
    IN  IF s1.run.interrupt_set THEN AfterLoop(s1)
        ELSE IF s1.run.tool_calls = <<>>
        THEN AfterLoop([s1 EXCEPT !.run.pending_tool_calls = FALSE])
        ELSE DispatchToolCalls([s1 EXCEPT !.run.pending_tool_calls = TRUE])

\* ToolExecutor.execute as the run sees it: one result per call, in input
\* order; ok[i] tells whether the tool of call i returned
ToolResults(tool_calls, ok) ==
    [i \in 1..Len(tool_calls) |->
        ExecuteSingle(tool_calls[i], IF ok[i] THEN "returns" ELSE "raises")]

RECURSIVE AddToolMessages(_, _)
AddToolMessages(st, results) ==
    IF results = <<>> THEN st
    ELSE AddToolMessages(
             AddMessage(st, "tool", Head(results).content, <<>>,
                        Head(results).tool_call_id),
             Tail(results))

\* the loop body from the return of tool_executor.execute on
AfterExecute(st, results) ==
    NextIteration(AddToolMessages(
        [st EXCEPT !.run.tool_results = @ \o results], results))

\* both modes: the code from get-or-create session to the first LLM request,
\* without the session chunk of chat_stream
Prologue(st) ==
    LET s1 == IF st.run.given_id # None /\ ~HasTodoPrompt(st.session.messages)
              THEN AddMessage(st, "system", TODO_SYSTEM_PROMPT, <<>>, NoId)
              ELSE st
        s2 == AddMessage(s1, "user", <<"u">>, <<>>, NoId)
        s3 == [s2 EXCEPT
                  !.events = Put(s2.events, s2.run.session_id, s2.run.id),
                  !.run.interrupt_set = FALSE]
    IN  LoopTop(s3)

(***************************************************************************)
(* Actions.                                                                *)
(***************************************************************************)
St(r, sid) ==
    [run |-> runs[r], session |-> sessions[sid], cw |-> context_windows[sid],
     events |-> interrupt_events,
     todo |-> [table |-> todo_table, log |-> todo_log]]

Commit(r, st) ==
    /\ runs' = [runs EXCEPT ![r] = st.run]
    /\ sessions' = Put(sessions, st.run.session_id, st.session)
    /\ context_windows' = Put(context_windows, st.run.session_id, st.cw)
    /\ interrupt_events' = st.events
    /\ todo_table' = st.todo.table
    /\ todo_log' = st.todo.log
    /\ last_interrupt' = NoCall
    /\ UNCHANGED <<loop_interrupt_events, agent_states>>
    /\ UNCHANGED standalone_vars

\* the get-or-create of chat / chat_stream for a run that names a session
\* the MemoryManager holds, or none
Entered(r, mode, sid) ==
    LET id == IF sid = None THEN NewSessionId ELSE sid
        new == NewSession(id, TRUE)
    IN  [run |-> [runs[r] EXCEPT !.mode = mode, !.given_id = sid, !.session_id = id],
         session |-> IF sid = None THEN new.session ELSE sessions[sid],
         cw |-> IF sid = None THEN new.cw ELSE context_windows[sid],
         events |-> interrupt_events,
         todo |-> [table |-> todo_table, log |-> todo_log]]

Startable(r, sid) ==
    /\ runs[r].pc = "idle"
    /\ \A q \in RunIds : q < r => runs[q].pc # "idle"
    /\ sid = None => CanCreate

\* POST /sessions: memory.create_session() without a system prompt
CreateSession ==
    /\ CanCreate
    /\ LET new == NewSession(NewSessionId, FALSE)
       IN  /\ sessions' = Put(sessions, NewSessionId, new.session)
           /\ context_windows' = Put(context_windows, NewSessionId, new.cw)
    /\ last_interrupt' = NoCall
    /\ UNCHANGED <<interrupt_events, loop_interrupt_events, agent_states, runs>>
    /\ UNCHANGED <<todo_vars, standalone_vars>>

\* chat / chat_stream called with an id the MemoryManager does not hold:
\* ValueError, raised before the try block
StartUnknown(r, mode, sid) ==
    /\ Startable(r, sid)
    /\ sid # None /\ ~Known(sid)
    /\ LET run == [runs[r] EXCEPT !.mode = mode, !.given_id = sid,
                                  !.outcome = "ValueError", !.pc = "finished"]
       IN  runs' = [runs EXCEPT ![r] =
                       IF mode = "stream"
                       THEN [run EXCEPT !.chunks =
                                <<[type |-> "error", delta |-> <<"ValueError">>,
                                   iteration |-> 0, stored |-> 0]>>]
                       ELSE run]
    /\ last_interrupt' = NoCall
    /\ UNCHANGED <<sessions, context_windows, interrupt_events,
                   loop_interrupt_events, agent_states>>
    /\ UNCHANGED <<todo_vars, standalone_vars>>

\* chat from the call to the first LLM request
ChatStart(r, sid) ==
    /\ Startable(r, sid)
    /\ sid = None \/ Known(sid)
    /\ Commit(r, Prologue(Entered(r, "chat", sid)))

\* the LLM requests answered so far: those made less those still awaited
Answered ==
    SumSeq([r \in RunIds |->
               runs[r].llm_calls - (IF runs[r].pc = "llm" THEN 1 ELSE 0)])

\* chat: the LLM request returns, or fails
ChatResponse(r) ==
    /\ runs[r].pc = "llm" /\ runs[r].mode = "chat"
    /\ Answered < MaxCalls
    /\ \/ \E tool_calls \in ResponseToolCalls(r, runs[r].llm_calls) :
              Commit(r, ChatAfterResponse(St(r, runs[r].session_id), <<"a">>,
                                          tool_calls))
       \/ Commit(r, Raise(St(r, runs[r].session_id), "LLMError"))

\* both modes: tool_executor.execute returns
ToolsDone(r) ==
    /\ runs[r].pc = "tools"
    /\ LET regular == RegularCalls(runs[r].tool_calls)
       IN  \E ok \in [1..Len(regular) -> BOOLEAN] :
               /\ \A i \in 1..Len(regular) :
                      ok[i] => JsonKind(regular[i].arguments) = "object"
               /\ Commit(r, AfterExecute(St(r, runs[r].session_id),
                                         ToolResults(regular, ok)))

\* chat_stream from the call to the yield of the session chunk
StreamStart(r, sid) ==
    /\ Startable(r, sid)
    /\ sid = None \/ Known(sid)
    /\ LET e == Entered(r, "stream", sid)
       IN  Commit(r, [Emit(e, "session", <<e.run.session_id>>) EXCEPT
                         !.run.pc = "session_sent"])

\* chat_stream from the session chunk to the first LLM request
StreamBegin(r) ==
    /\ runs[r].pc = "session_sent"
    /\ Commit(r, Prologue(St(r, runs[r].session_id)))

\* chat_stream: the request returns the provider stream, or fails
StreamOpened(r) ==
    /\ runs[r].pc = "llm" /\ runs[r].mode = "stream"
    /\ Answered < MaxCalls
    /\ LET st == St(r, runs[r].session_id)
       IN  \/ \E deltas \in ProviderStreams(r, runs[r].llm_calls) :
                  Commit(r, [st EXCEPT !.run.pc = "streaming",
                                       !.run.stream = "open",
                                       !.run.content = <<>>,
                                       !.run.thinking = <<>>,
                                       !.run.tool_calls = <<>>,
                                       !.run.deltas = deltas])
           \/ Commit(r, Raise(st, "LLMError"))

\* faulty variant of OnDelta: the content of the delta is accumulated before
\* the signal is looked at
OnDeltaStoreFirst(st, delta) ==
    LET s1 == IF delta.kind = "content"
              THEN [st EXCEPT !.run.content = @ \o delta.text] ELSE st
    IN  IF st.run.interrupt_set
        THEN StreamAfterDeltas([s1 EXCEPT !.run.stream = "closed"])
        ELSE CASE delta.kind = "thinking" ->
                    Emit([st EXCEPT !.run.thinking = @ \o delta.text],
                         "thinking", delta.text)
               [] delta.kind = "content" -> Emit(s1, "content", delta.text)
               [] OTHER ->
                    [st EXCEPT !.run.tool_calls = ApplyFragment(@, delta)]

\* chat_stream: the body of the async for, for one delta
OnDelta(st, delta) ==
    IF st.run.interrupt_set
    THEN StreamAfterDeltas([st EXCEPT !.run.stream = "closed"])
    ELSE CASE delta.kind = "thinking" ->
                Emit([st EXCEPT !.run.thinking = @ \o delta.text],
                     "thinking", delta.text)
           [] delta.kind = "content" ->
                Emit([st EXCEPT !.run.content = @ \o delta.text],
                     "content", delta.text)
           [] OTHER ->
                [st EXCEPT !.run.tool_calls = ApplyFragment(@, delta)]

\* chat_stream: the provider stream delivers its next delta
StreamDelta(r) ==
    /\ runs[r].pc = "streaming"
    /\ runs[r].deltas # <<>>
    /\ LET st == St(r, runs[r].session_id)
       IN  Commit(r, OnDelta([st EXCEPT !.run.deltas = Tail(@)],
                             Head(runs[r].deltas)))

\* chat_stream: the provider stream ends
StreamEnd(r) ==
    /\ runs[r].pc = "streaming"
    /\ runs[r].deltas = <<>>
    /\ Commit(r, StreamAfterDeltas([St(r, runs[r].session_id) EXCEPT
                                       !.run.stream = "exhausted"]))

\* chat_stream: the provider stream raises
StreamError(r) ==
    /\ runs[r].pc = "streaming"
    /\ Commit(r, Raise(St(r, runs[r].session_id), "LLMError"))

\* chat_stream: the consumer took the todo_list chunks
TodoFlushed(r) ==
    /\ runs[r].pc = "todo_flush"
    /\ Commit(r, StartTools(St(r, runs[r].session_id)))

\* chat_stream: the consumer took the done chunk; the generator ends
StreamClose(r) ==
    /\ runs[r].pc = "done_sent"
    /\ Commit(r, Finally(St(r, runs[r].session_id)))

Active(r) == runs[r].pc \in {"llm", "streaming", "todo_flush", "tools", "done_sent"}

ActiveOn(sid) == {r \in RunIds : Active(r) /\ runs[r].session_id = sid}

\* AgentLoop.interrupt: [events, states, result]
LoopInterrupt(events, states, sid) ==
    IF sid \in DOMAIN events
    THEN [events |-> [events EXCEPT ![sid] = TRUE],
          states |-> IF sid \in DOMAIN states
                     THEN [states EXCEPT ![sid] = "interrupted"] ELSE states,
          result |-> TRUE]
    ELSE [events |-> events, states |-> states, result |-> FALSE]

\* ChatAgent.interrupt
Interrupt(sid) ==
    /\ IF sid \in DOMAIN interrupt_events
       THEN LET owner == interrupt_events[sid]
            IN  /\ runs' = [runs EXCEPT
                               ![owner].interrupt_set = TRUE,
                               ![owner].cut =
                                   IF runs[owner].pc = "streaming"
                                      /\ ~runs[owner].interrupt_set
                                   THEN <<runs[owner].llm_calls,
                                          runs[owner].tool_execs>>
                                   ELSE @]
                /\ last_interrupt' = [session |-> sid, registered |-> TRUE,
                                      result |-> TRUE,
                                      active |-> ActiveOn(sid) # {}]
                /\ UNCHANGED <<loop_interrupt_events, agent_states>>
       ELSE LET l == LoopInterrupt(loop_interrupt_events, agent_states, sid)
            IN  /\ loop_interrupt_events' = l.events
                /\ agent_states' = l.states
                /\ last_interrupt' = [session |-> sid,
                                      registered |-> sid \in DOMAIN loop_interrupt_events,
                                      result |-> l.result,
                                      active |-> ActiveOn(sid) # {}]
                /\ UNCHANGED runs
    /\ UNCHANGED <<sessions, context_windows, interrupt_events>>
    /\ UNCHANGED <<todo_vars, standalone_vars>>

Next ==
    \/ CreateSession
    \/ \E r \in RunIds, sid \in SessionIds, mode \in {"chat", "stream"} :
           StartUnknown(r, mode, sid)
    \/ \E r \in RunIds, sid \in SessionIds \cup {None} : ChatStart(r, sid)
    \/ \E r \in RunIds : ChatResponse(r)
    \/ \E r \in RunIds : ToolsDone(r)
    \/ \E r \in RunIds, sid \in SessionIds \cup {None} : StreamStart(r, sid)
    \/ \E r \in RunIds : StreamBegin(r)
    \/ \E r \in RunIds : StreamOpened(r)
    \/ \E r \in RunIds : StreamDelta(r)
    \/ \E r \in RunIds : StreamEnd(r)
    \/ \E r \in RunIds : StreamError(r)
    \/ \E r \in RunIds : TodoFlushed(r)
    \/ \E r \in RunIds : StreamClose(r)
    \/ \E sid \in SessionIds : Interrupt(sid)

Spec == Init /\ [][Next]_vars

(***************************************************************************)
(* ToolExecutor.execute on its own: up to MaxExecutes concurrent calls on  *)
(* one ToolExecutor, each with a batch of up to MaxBatch tool calls.       *)
(***************************************************************************)
\* the batches of call c: good calls (G), a call with malformed JSON (J), one
\* whose arguments are no JSON object (N), one naming an unknown tool (U)
Batches(c) ==
    LET G(i) == ToolCall(<<c, i>>, REGULAR_TOOL, <<"{", "}">>)
        J(i) == ToolCall(<<c, i>>, REGULAR_TOOL, <<"{">>)
        N(i) == ToolCall(<<c, i>>, REGULAR_TOOL, <<"[", "]">>)
        U(i) == ToolCall(<<c, i>>, UNKNOWN_TOOL, <<"{", "}">>)
    IN  { Truncate(b, MaxBatch) : b \in
            { <<>>,
              <<G(1)>>,
              <<G(1), G(2)>>,
              <<G(1), G(2), G(3)>>,
              <<G(1), G(2), J(3)>>,
              <<N(1), U(2), G(3)>> } }

NoResult == [tool_call_id |-> NoId, name |-> "", success |-> FALSE,
             content |-> <<>>, error |-> <<>>]

\* execute(tool_calls) is called: an empty batch returns at once, otherwise
\* a new Semaphore(max_parallel) is made and one task per call is gathered
Execute(c, tool_calls) ==
    /\ executions[c].state = "idle"
    /\ \A q \in ExecIds : q < c => executions[q].state # "idle"
    /\ executions' = [executions EXCEPT ![c] =
           IF tool_calls = <<>>
           THEN [@ EXCEPT !.state = "returned"]
           ELSE [@ EXCEPT
                    !.state = "running",
                    !.tool_calls = tool_calls,
                    !.semaphore = MaxParallel,
                    !.tasks = [i \in 1..Len(tool_calls) |-> "waiting"],
                    !.how = [i \in 1..Len(tool_calls) |-> "none"],
                    !.results = [i \in 1..Len(tool_calls) |-> NoResult]]]
    /\ UNCHANGED <<agent_vars, window, unit_vars, memory_call, component_vars>>

\* task i, the first one still waiting, acquires the semaphore and runs _execute_single up to its first
\* suspension: the await of tool.execute, or the end when the arguments or
\* the tool name are rejected before it
TaskEnter(c, i) ==
    /\ executions[c].state = "running"
    /\ i \in 1..Len(executions[c].tasks)
    /\ executions[c].tasks[i] = "waiting"
    /\ \A j \in 1..(i - 1) : executions[c].tasks[j] # "waiting"
    /\ executions[c].semaphore > 0
    /\ LET tc == executions[c].tool_calls[i]
       IN  executions' = [executions EXCEPT ![c] =
               IF ReachesTool(tc) /\ JsonKind(tc.arguments) = "object"
               THEN [@ EXCEPT !.tasks[i] = "in_flight",
                              !.semaphore = @ - 1]
               ELSE [@ EXCEPT !.tasks[i] = "done",
                              !.results[i] = ExecuteSingle(tc, "none"),
                              !.order = Append(@, i)]]
    /\ UNCHANGED <<agent_vars, window, unit_vars, memory_call, component_vars>>

\* the tool of task i returns, raises or runs into the timeout; the task
\* releases the semaphore
TaskComplete(c, i, how) ==
    /\ executions[c].state = "running"
    /\ i \in 1..Len(executions[c].tasks)
    /\ executions[c].tasks[i] = "in_flight"
    /\ executions' = [executions EXCEPT ![c] =
           [@ EXCEPT !.tasks[i] = "done",
                     !.how[i] = how,
                     !.results[i] = ExecuteSingle(executions[c].tool_calls[i], how),
                     !.semaphore = @ + 1,
                     !.order = Append(@, i)]]
    /\ UNCHANGED <<agent_vars, window, unit_vars, memory_call, component_vars>>

\* every task is done: gather returns, execute returns final_results
ExecuteReturn(c) ==
    /\ executions[c].state = "running"
    /\ \A i \in 1..Len(executions[c].tasks) : executions[c].tasks[i] = "done"
    /\ executions' = [executions EXCEPT ![c] =
           [@ EXCEPT !.state = "returned",
                     !.final = GatherResults(executions[c].results,
                                             executions[c].order)]]
    /\ UNCHANGED <<agent_vars, window, unit_vars, memory_call, component_vars>>

ExecNext ==
    \/ \E c \in ExecIds : \E tool_calls \in Batches(c) : Execute(c, tool_calls)
    \/ \E c \in ExecIds, i \in 1..MaxBatch : TaskEnter(c, i)
    \/ \E c \in ExecIds, i \in 1..MaxBatch,
           how \in {"returns", "raises", "times_out"} : TaskComplete(c, i, how)
    \/ \E c \in ExecIds : ExecuteReturn(c)

ExecSpec == Init /\ [][ExecNext]_vars

(***************************************************************************)
(* The TodoService on its own: up to MaxTodoOps calls on the todo list of  *)
(* a session, made by _handle_todo_tool_call or directly.                  *)
(***************************************************************************)
\* the parsed arguments of manage_todo_list calls
TodoArgs ==
    LET It(label, status) == [label |-> label, status |-> status]
    IN  { [title |-> <<"t">>, items |-> <<>>],
          [title |-> <<"t">>, items |-> <<It("a", "pending"), It("b", "pending")>>],
          [title |-> <<"t">>, items |-> <<It("a", "running"), It("b", "running")>>],
          [title |-> <<"t">>, items |-> <<It("a", "done"), It("b", "in_progress")>>] }

\* the item lists of direct calls of create_or_replace: order_index left at
\* its default 0, given out of order, and given for one item only
TodoItemLists ==
    { <<TodoItem("a", "running", 0), TodoItem("b", "pending", 0)>>,
      <<TodoItem("a", "pending", 2), TodoItem("b", "running", 1)>>,
      <<TodoItem("a", "pending", 0), TodoItem("b", "pending", 1)>> }

TodoOpen(sid) == Len(todo_log[sid]) < MaxTodoOps

TodoCommit(td) ==
    /\ todo_table' = td.table
    /\ todo_log' = td.log
    /\ UNCHANGED <<run_vars, standalone_vars>>

TodoState == [table |-> todo_table, log |-> todo_log]

\* _handle_todo_tool_call with arguments that parsed to args
TodoHandle(sid, args) ==
    /\ TodoOpen(sid)
    /\ TodoCommit(SaveTodo(TodoState, sid, 0, NoId, args.title, TodoItemsOf(args)))

\* TodoService.create_or_replace_with_items called directly
TodoCreateOrReplace(sid, items) ==
    /\ TodoOpen(sid)
    /\ TodoCommit(SaveTodo(TodoState, sid, 0, NoId, <<"t">>, items))

\* TodoService.set_item_status on an item of the list
TodoSetItemStatus(sid, item, status) ==
    /\ TodoOpen(sid)
    /\ HasList(todo_table, sid)
    /\ item \in 1..Len(todo_table[RowIndex(todo_table, sid)].items)
    /\ TodoCommit(TodoCommitted(TodoState, sid, "set_item_status", 0, NoId,
                                <<>>, <<>>,
                                SetItemStatus(todo_table, sid, item, status)))

\* TodoService.advance_step
TodoAdvanceStep(sid) ==
    /\ TodoOpen(sid)
    /\ HasList(todo_table, sid)
    /\ \E p \in SortedOrders(todo_table[RowIndex(todo_table, sid)].items) :
           TodoCommit(TodoCommitted(TodoState, sid, "advance_step", 0, NoId,
                                    <<>>, <<>>,
                                    AdvanceStep(todo_table, sid, p)))

\* TodoService.complete_all
TodoCompleteAll(sid) ==
    /\ TodoOpen(sid)
    /\ HasList(todo_table, sid)
    /\ TodoCommit(TodoCommitted(TodoState, sid, "complete_all", 0, NoId,
                                <<>>, <<>>, CompleteAll(todo_table, sid)))

\* TodoService.clear
TodoClear(sid) ==
    /\ TodoOpen(sid)
    /\ HasList(todo_table, sid)
    /\ TodoCommit(TodoCommitted(TodoState, sid, "clear", 0, NoId, <<>>, <<>>,
                                ClearTodo(todo_table, sid)))

TodoNext ==
    \/ \E sid \in SessionIds, args \in TodoArgs : TodoHandle(sid, args)
    \/ \E sid \in SessionIds, items \in TodoItemLists :
           TodoCreateOrReplace(sid, items)
    \/ \E sid \in SessionIds, item \in 1..2,
           status \in {"pending", "running", "completed"} :
           TodoSetItemStatus(sid, item, status)
    \/ \E sid \in SessionIds : TodoAdvanceStep(sid)
    \/ \E sid \in SessionIds : TodoCompleteAll(sid)
    \/ \E sid \in SessionIds : TodoClear(sid)

TodoSpec == Init /\ [][TodoNext]_vars

(***************************************************************************)
(* The ContextWindow on its own: up to MaxWindowOps operations on one      *)
(* window, with MaxWindowMessages messages to add and to remove.           *)
(***************************************************************************)
\* message k: the messages differ in role and in the length of the content
WindowMessage(k) ==
    Message(<<0, k>>,
            IF k = 1 THEN "system" ELSE IF k = 2 THEN "user" ELSE "assistant",
            [i \in 1..(5 * k) |-> "w"], <<>>, NoId)

\* op is the operation made ("add_message_locked" is add_message with
\* lock=True), returned what optimize returned, 1 or 0 for the True or False
\* of add_message (0 for the other operations), before the current_tokens
\* the operation found
WindowOp(cw, op, returned) ==
    /\ window.ops < MaxWindowOps
    /\ window' = [cw |-> cw, ops |-> window.ops + 1, op |-> op,
                  returned |-> returned, before |-> window.cw.current_tokens]
    /\ UNCHANGED <<agent_vars, executions, unit_vars, memory_call, component_vars>>

WAddMessage(k, lock) ==
    WindowOp(CWAddMessage(window.cw, WindowMessage(k),
                          CalculatePriority(WindowMessage(k)), lock).cw,
             IF lock THEN "add_message_locked" ELSE "add_message",
             IF CWAddMessage(window.cw, WindowMessage(k),
                             CalculatePriority(WindowMessage(k)), lock).added
             THEN 1 ELSE 0)

WMoveToWarm(i) ==
    /\ i <= Len(window.cw.hot)
    /\ WindowOp(MoveToWarm(window.cw, i), "move_to_warm", 0)

WMoveToCold(i, summary) ==
    /\ i <= Len(window.cw.warm)
    /\ WindowOp(MoveToCold(window.cw, i, summary), "move_to_cold", 0)

WRemoveMessage(k) ==
    /\ <<0, k>> \in DOMAIN window.cw.index
    /\ WindowOp(RemoveMessage(window.cw, <<0, k>>), "remove_message", 0)

WClear(keep_locked) ==
    WindowOp(CWClear(window.cw, keep_locked), "clear", 0)

WOptimize(target_pct) ==
    /\ window.cw.current_tokens > 0
    /\ WindowOp(Optimize(window.cw, target_pct).cw, "optimize",
                Optimize(window.cw, target_pct).freed)

WindowNext ==
    \/ \E k \in 1..MaxWindowMessages, lock \in BOOLEAN : WAddMessage(k, lock)
    \/ \E i \in 1..MaxWindowOps : WMoveToWarm(i)
    \/ \E i \in 1..MaxWindowOps,
           summary \in {NoSummary, PlaceholderSummary} : WMoveToCold(i, summary)
    \/ \E k \in 1..MaxWindowMessages : WRemoveMessage(k)
    \/ \E keep_locked \in BOOLEAN : WClear(keep_locked)
    \/ \E target_pct \in {10, 70} : WOptimize(target_pct)

WindowSpec == Init /\ [][WindowNext]_vars

(***************************************************************************)
(* The MemoryManager on its own: up to MaxMemoryOps calls of               *)
(* create_session, add_message and delete_session, and todo lists saved    *)
(* for its sessions.                                                       *)
(***************************************************************************)
MemoryCalled(op, sid, returned, compressed, message_id, input) ==
    /\ memory_call.ops < MaxMemoryOps
    /\ memory_call' = [op |-> op, session_id |-> sid, returned |-> returned,
                       compressed |-> compressed, message_id |-> message_id,
                       before |-> IF sid \in DOMAIN sessions
                                  THEN sessions[sid].messages ELSE <<>>,
                       input |-> input,
                       known |-> sid \in DOMAIN sessions,
                       created |-> memory_call.created
                                       + (IF op = "create_session" THEN 1 ELSE 0),
                       ops |-> memory_call.ops + 1]
    /\ UNCHANGED <<interrupt_events, loop_interrupt_events, agent_states, runs,
                   last_interrupt, window, executions, unit_vars,
                   component_vars>>

\* MemoryManager.create_session
MCreateSession(with_prompt) ==
    /\ memory_call.created < MaxSessions
    /\ LET new == NewSession(memory_call.created + 1, with_prompt)
       IN  /\ sessions' = Put(sessions, memory_call.created + 1, new.session)
           /\ context_windows' = Put(context_windows, memory_call.created + 1, new.cw)
    /\ MemoryCalled("create_session", memory_call.created + 1, TRUE, FALSE, NoId,
                    <<>>)
    /\ UNCHANGED todo_vars

\* MemoryManager.add_message, from the result a of the insertion on
MAdded(sid, a) ==
    /\ sessions' = [sessions EXCEPT ![sid] = a.session]
    /\ context_windows' = [context_windows EXCEPT ![sid] = a.cw]
    /\ MemoryCalled("add_message", sid, a.added, a.compressed, a.message.id,
                    a.input)
    /\ UNCHANGED todo_vars

\* MemoryManager.add_message of a message with a content of the given size
MAddMessage(sid, role, size) ==
    IF ~Known(sid)
    THEN /\ MemoryCalled("add_message", sid, FALSE, FALSE, NoId, <<>>)
         /\ UNCHANGED <<sessions, context_windows, todo_vars>>
    ELSE MAdded(sid, MMAddMessage(sessions[sid], context_windows[sid],
                                  Message(<<1, memory_call.ops>>, role,
                                          [i \in 1..size |-> "m"], <<>>, NoId)))

\* MemoryManager.delete_session, as ChatAgent.delete_session calls it
MDeleteSession(sid) ==
    /\ sessions' = [x \in DOMAIN sessions \ {sid} |-> sessions[x]]
    /\ context_windows' = [x \in DOMAIN context_windows \ {sid} |->
                               context_windows[x]]
    /\ MemoryCalled("delete_session", sid, TRUE, FALSE, NoId, <<>>)
    /\ UNCHANGED todo_vars

MemoryNext ==
    \/ \E with_prompt \in BOOLEAN : MCreateSession(with_prompt)
    \/ \E sid \in SessionIds, role \in {"user", "assistant"},
           size \in MessageSizes : MAddMessage(sid, role, size)
    \/ \E sid \in SessionIds : MDeleteSession(sid)
    \/ \E sid \in SessionIds, items \in TodoItemLists :
           Known(sid) /\ TodoCreateOrReplace(sid, items)

MemorySpec == Init /\ [][MemoryNext]_vars

(***************************************************************************)
(* InMemoryQueueBackend (src/app/messaging/queue.py) on its own, with one   *)
(* dequeuer.  The asyncio.PriorityQueue keeps its items in a binary heap    *)
(* (heapq), a sequence whose position p has its children at 2p and 2p + 1, *)
(* and orders them with QueuedMessage.__lt__.                               *)
(***************************************************************************)
\* QueuedMessage.__lt__
Lt(self, other) == self.priority > other.priority

\* heapq._siftdown: newitem moves from pos towards startpos past every
\* parent it is less than
RECURSIVE SiftDown(_, _, _, _)
SiftDown(heap, startpos, pos, newitem) ==
    IF pos > startpos /\ Lt(newitem, heap[pos \div 2])
    THEN SiftDown([heap EXCEPT ![pos] = heap[pos \div 2]], startpos,
                  pos \div 2, newitem)
    ELSE [heap EXCEPT ![pos] = newitem]

\* heapq._siftup: the smaller child moves up until a leaf is reached, then
\* newitem is sifted down from the leaf
RECURSIVE SiftUp(_, _, _)
SiftUp(heap, pos, newitem) ==
    IF 2 * pos > Len(heap) THEN SiftDown(heap, 1, pos, newitem)
    ELSE IF 2 * pos + 1 <= Len(heap) /\ ~Lt(heap[2 * pos], heap[2 * pos + 1])
    THEN SiftUp([heap EXCEPT ![pos] = heap[2 * pos + 1]], 2 * pos + 1, newitem)
    ELSE SiftUp([heap EXCEPT ![pos] = heap[2 * pos]], 2 * pos, newitem)

\* PriorityQueue._put: heapq.heappush
HeapPush(heap, item) == SiftDown(Append(heap, item), 1, Len(heap) + 1, item)

\* PriorityQueue._get: heapq.heappop, the heap it leaves
HeapPop(heap) ==
    IF Len(heap) = 1 THEN <<>>
    ELSE SiftUp(SubSeq(heap, 1, Len(heap) - 1), 1, heap[Len(heap)])

\* InMemoryQueueBackend.enqueue
Enqueue(priority) ==
    /\ queue.enqueued < MaxEnqueues
    /\ queue' = IF queue.size >= QueueMaxSize
                THEN [queue EXCEPT !.accepted = FALSE, !.last = NoMessage,
                                   !.enqueued = @ + 1]
                ELSE [queue EXCEPT
                         !.heap = HeapPush(@, [id |-> queue.enqueued + 1,
                                               priority |-> priority]),
                         !.size = @ + 1,
                         !.accepted = TRUE,
                         !.last = NoMessage,
                         !.enqueued = @ + 1]
    /\ UNCHANGED <<agent_vars, window, executions, compression, sandbox,
                   memory_call, component_vars>>

\* InMemoryQueueBackend.dequeue when the queue holds a message
Dequeue ==
    /\ queue.heap # <<>>
    /\ queue' = [queue EXCEPT !.heap = HeapPop(@), !.size = @ - 1,
                              !.last = queue.heap[1]]
    /\ UNCHANGED <<agent_vars, window, executions, compression, sandbox,
                   memory_call, component_vars>>

QueueNext ==
    \/ \E priority \in Priorities : Enqueue(priority)
    \/ Dequeue

QueueSpec == Init /\ [][QueueNext]_vars

(***************************************************************************)
(* The sandbox (src/app/sandbox): CodeExecutor.execute, the SecurityChecker *)
(* and DockerSandboxManager.execute.  A code is a sequence of statements    *)
(* [kind, module], kind being "import", "from", "call" or "invalid" (a      *)
(* statement ast.parse rejects) and module a dotted name as the sequence of *)
(* its parts.                                                               *)
(***************************************************************************)
BLOCKED_MODULES == {"ctypes", "multiprocessing", "signal", "_thread"}

\* SecurityChecker._check_imports on one node
Blocked(node) ==
    /\ node.kind \in {"import", "from"}
    /\ node.module # <<>>
    /\ Head(node.module) \in BLOCKED_MODULES

\* SecurityChecker.validate: [passed, blocked_reason]
Validate(code) ==
    IF \E i \in 1..Len(code) : code[i].kind = "invalid"
    THEN [passed |-> FALSE, blocked_reason |-> <<"Syntax error">>]
    ELSE IF \E i \in 1..Len(code) : Blocked(code[i])
    THEN [passed |-> FALSE,
          blocked_reason |->
              <<"Blocked module">>
              \o code[CHOOSE i \in 1..Len(code) :
                          /\ Blocked(code[i])
                          /\ \A j \in 1..(i - 1) : ~Blocked(code[j])].module]
    ELSE [passed |-> TRUE, blocked_reason |-> <<>>]

\* the codes submitted
Codes ==
    {<<[kind |-> "call", module |-> <<"print">>]>>,
     <<[kind |-> "import", module |-> <<"os">>],
       [kind |-> "import", module |-> <<"ctypes", "util">>]>>,
     <<[kind |-> "from", module |-> <<"signal">>]>>,
     <<[kind |-> "invalid", module |-> <<>>]>>}

SandboxStep(sandbox2) ==
    /\ sandbox' = sandbox2
    /\ UNCHANGED <<agent_vars, window, executions, compression, queue,
                   memory_call, component_vars>>

\* execute returns or raises
Returned(call, status, error) ==
    [call EXCEPT !.pc = "returned", !.status = status, !.error = error]

\* the finally block of DockerSandboxManager.execute, entered with the
\* result or the exception that leaves the try block
SandboxFinally(call, status) ==
    IF call.container
    THEN [call EXCEPT !.pc = "removing", !.removing = TRUE, !.pending = status]
    ELSE Returned(call, status, <<>>)

\* CodeExecutor.execute up to the first await of
\* DockerSandboxManager.execute; docker tells what initialize() finds:
\* the daemon "up" with the image, "down", or up with "no_image" to use or
\* to build
SExecute(c, code, docker) ==
    /\ sandbox.calls[c].pc = "idle"
    /\ SandboxStep(
           IF ~sandbox.initialized /\ docker # "up"
           THEN [sandbox EXCEPT
                    !.calls[c] = Returned([@ EXCEPT !.code = code], "raised",
                                          <<"Docker is not available">>)]
           ELSE IF ~Validate(code).passed
           THEN [sandbox EXCEPT
                    !.initialized = TRUE,
                    !.ready = TRUE,
                    !.calls[c] = Returned([@ EXCEPT !.code = code],
                                          "security_blocked",
                                          Validate(code).blocked_reason)]
           ELSE [sandbox EXCEPT
                    !.initialized = TRUE,
                    !.ready = TRUE,
                    !.calls[c] = [@ EXCEPT !.code = code, !.pc = "creating",
                                           !.creating = TRUE]])

\* the thread of containers.create ends: the container exists, and the
\* call, unless it was cancelled meanwhile, holds it
SCreated(c, ok) ==
    /\ sandbox.calls[c].creating
    /\ SandboxStep(
           [sandbox EXCEPT
               !.containers = IF ok THEN @ \cup {c} ELSE @,
               !.calls[c] =
                   IF @.pc # "creating" THEN [@ EXCEPT !.creating = FALSE]
                   ELSE IF ok
                   THEN [@ EXCEPT !.creating = FALSE, !.container = TRUE,
                                  !.pc = "copying"]
                   ELSE SandboxFinally([@ EXCEPT !.creating = FALSE], "error")])

\* _copy_code_to_container
SCopy(c, ok) ==
    /\ sandbox.calls[c].pc = "copying"
    /\ SandboxStep([sandbox EXCEPT
           !.calls[c] = IF ok THEN [@ EXCEPT !.pc = "starting"]
                        ELSE SandboxFinally(@, "error")])

\* container.start
SStart(c, ok) ==
    /\ sandbox.calls[c].pc = "starting"
    /\ SandboxStep([sandbox EXCEPT
           !.calls[c] = IF ok THEN [@ EXCEPT !.pc = "waiting"]
                        ELSE SandboxFinally(@, "error")])

\* container.wait under asyncio.wait_for: the exit code, or the timeout
\* followed by _safe_kill
SWait(c, timed_out, exit) ==
    /\ sandbox.calls[c].pc = "waiting"
    /\ SandboxStep([sandbox EXCEPT
           !.calls[c] = IF timed_out THEN SandboxFinally(@, "timeout")
                        ELSE [@ EXCEPT !.pc = "logging", !.exit_code = exit]])

\* container.logs and the result
SLogs(c, ok) ==
    /\ sandbox.calls[c].pc = "logging"
    /\ SandboxStep([sandbox EXCEPT
           !.calls[c] = SandboxFinally(@, IF ok /\ @.exit_code = 0 THEN "success"
                                          ELSE "error")])

\* the thread of container.remove(force=True) ends; _safe_remove swallows
\* its exception
SRemoved(c, ok) ==
    /\ sandbox.calls[c].removing
    /\ SandboxStep(
           [sandbox EXCEPT
               !.containers = IF ok THEN @ \ {c} ELSE @,
               !.calls[c] =
                   IF @.pc = "removing"
                   THEN Returned([@ EXCEPT !.removing = FALSE], @.pending, <<>>)
                   ELSE [@ EXCEPT !.removing = FALSE]])

\* the task awaiting execute is cancelled: CancelledError is raised at the
\* await the call is suspended in, past the except Exception clauses
SCancel(c) ==
    /\ sandbox.calls[c].pc
           \in {"creating", "copying", "starting", "waiting", "logging", "removing"}
    /\ SandboxStep([sandbox EXCEPT
           !.calls[c] = IF @.pc = "removing" THEN Returned(@, "cancelled", <<>>)
                        ELSE SandboxFinally(@, "cancelled")])

SandboxNext ==
    \/ \E c \in SandboxCalls, code \in Codes,
           docker \in {"up", "down", "no_image"} : SExecute(c, code, docker)
    \/ \E c \in SandboxCalls, ok \in BOOLEAN : SCreated(c, ok)
    \/ \E c \in SandboxCalls, ok \in BOOLEAN : SCopy(c, ok)
    \/ \E c \in SandboxCalls, ok \in BOOLEAN : SStart(c, ok)
    \/ \E c \in SandboxCalls, timed_out \in BOOLEAN, exit \in {0, 1} :
           SWait(c, timed_out, exit)
    \/ \E c \in SandboxCalls, ok \in BOOLEAN : SLogs(c, ok)
    \/ \E c \in SandboxCalls, ok \in BOOLEAN : SRemoved(c, ok)
    \/ \E c \in SandboxCalls : SCancel(c)

SandboxSpec == Init /\ [][SandboxNext]_vars

(***************************************************************************)
(* SummaryCompressor.compress on its own: one call on a list of up to      *)
(* MaxCompressLen messages.                                                *)
(***************************************************************************)
\* the messages a list is made of: the four roles, an assistant message
\* with tool calls, and a tool message whose content holds keywords
CompressMessageKinds ==
    {[role |-> "system", content |-> <<"s">>, tool_calls |-> <<>>],
     [role |-> "user", content |-> <<"u">>, tool_calls |-> <<>>],
     [role |-> "assistant", content |-> <<"a">>, tool_calls |-> <<>>],
     [role |-> "assistant", content |-> <<>>,
      tool_calls |-> <<ToolCall(<<0, 0, 1>>, REGULAR_TOOL, <<"{", "}">>)>>],
     [role |-> "tool", content |-> <<"t">>, tool_calls |-> <<>>],
     [role |-> "tool", content |-> <<"error", "critical">>, tool_calls |-> <<>>]}

\* the list of messages of the given kinds, each counted as add_message
\* counts it
CompressInput(kinds) ==
    [i \in 1..Len(kinds) |->
        CountedMessage(Message(<<0, i>>, kinds[i].role, kinds[i].content,
                               kinds[i].tool_calls,
                               IF kinds[i].role = "tool" THEN <<0, 0, 1>> ELSE NoId))]

CompressCalled(messages, c) ==
    /\ compression' = [called |-> TRUE, messages |-> messages,
                       retained |-> c.retained, summary |-> c.summary]
    /\ UNCHANGED <<agent_vars, window, executions, queue, sandbox, memory_call,
                   component_vars>>

CompressCall(kinds) ==
    /\ ~compression.called
    /\ CompressCalled(CompressInput(kinds), Compress(CompressInput(kinds)))

CompressNext ==
    \E n \in 0..MaxCompressLen :
        \E kinds \in [1..n -> CompressMessageKinds] : CompressCall(kinds)

CompressSpec == Init /\ [][CompressNext]_vars

(***************************************************************************)
(* The queued AgentLoop path (src/app/agent/loop.py) for one request:      *)
(* _process_message runs _execute_agent_loop as the handler of the         *)
(* pipeline, whose innermost middleware is RetryMiddleware                 *)
(* (src/app/messaging/pipeline.py); the agent_state is the one of the      *)
(* session and is the same object in every attempt.  max_retries and delay *)
(* are the constructor's arguments; the default pipeline uses              *)
(* DefaultMaxRetries and delay 1.                                          *)
(***************************************************************************)
Delays == {1, 2}

\* RetryMiddleware.process: next_handler returned
HandlerReturned(p) ==
    [p EXCEPT !.pc = "returned", !.results = Append(@, NoError)]

\* faulty variant of HandlerRaised: the wait does not grow with the attempt
HandlerRaisedFlatDelay(p, e) ==
    IF p.attempt < p.max_retries - 1
    THEN [p EXCEPT !.results = Append(@, e), !.last_error = e,
                   !.pc = "sleeping", !.slept = Append(@, p.delay)]
    ELSE [p EXCEPT !.results = Append(@, e), !.last_error = e,
                   !.pc = "raised", !.raised = e]

\* RetryMiddleware.process: next_handler raised e
HandlerRaised(p, e) ==
    IF p.attempt < p.max_retries - 1
    THEN [p EXCEPT !.results = Append(@, e), !.last_error = e,
                   !.pc = "sleeping",
                   !.slept = Append(@, p.delay * (p.attempt + 1))]
    ELSE [p EXCEPT !.results = Append(@, e), !.last_error = e,
                   !.pc = "raised", !.raised = e]

\* _execute_agent_loop: the head of the while loop, up to the LLM request
LoopHead(p) ==
    IF p.iteration < MaxIterations THEN [p EXCEPT !.pc = "llm"]
    ELSE HandlerReturned(p)

\* RetryMiddleware.process: await next_handler(context)
InvokeHandler(p) == LoopHead([p EXCEPT !.invoked = @ + 1])

\* RetryMiddleware.process from its start: with max_retries = 0 the for loop
\* has no iteration and raise last_error raises None, a TypeError
RetryProcess(p) ==
    IF p.max_retries = 0
    THEN [p EXCEPT !.pc = "raised", !.raised = <<"TypeError">>]
    ELSE InvokeHandler(p)

PipelineStep(p) ==
    /\ pipeline' = p
    /\ UNCHANGED <<agent_vars, window, executions, unit_vars, memory_call,
                   assembly, agent_loop, backend>>

\* _process_message: pipeline.execute(context)
PExecute(max_retries, delay) ==
    /\ pipeline.pc = "idle"
    /\ PipelineStep(RetryProcess([pipeline EXCEPT !.max_retries = max_retries,
                                                  !.delay = delay]))

\* _execute_agent_loop: the LLM answers, with tool calls or without
PLLMResponse(tool_calls) ==
    /\ pipeline.pc = "llm"
    /\ PipelineStep(
           IF ~tool_calls
           THEN HandlerReturned([pipeline EXCEPT !.llm_calls = @ + 1,
                                                 !.status = "completed"])
           ELSE LoopHead([pipeline EXCEPT !.llm_calls = @ + 1,
                                          !.iteration = @ + 1]))

\* _execute_agent_loop: the LLM request raises; the error names the request
PLLMError ==
    /\ pipeline.pc = "llm"
    /\ PipelineStep(HandlerRaised([pipeline EXCEPT !.llm_calls = @ + 1],
                                  <<"LLMError", pipeline.llm_calls + 1>>))

\* RetryMiddleware.process: asyncio.sleep returns, the next attempt starts
PWake ==
    /\ pipeline.pc = "sleeping"
    /\ PipelineStep(InvokeHandler([pipeline EXCEPT !.attempt = @ + 1]))

PipelineNext ==
    \/ \E max_retries \in 0..DefaultMaxRetries, delay \in Delays :
           PExecute(max_retries, delay)
    \/ \E tool_calls \in BOOLEAN : PLLMResponse(tool_calls)
    \/ PLLMError
    \/ PWake

PipelineSpec == Init /\ [][PipelineNext]_vars

(***************************************************************************)
(* The life cycle of an AgentLoop (src/app/agent/loop.py): start, stop,    *)
(* pause and resume called by the application, and the _main_loop tasks    *)
(* that start creates.  The queue is empty, so dequeue returns None after  *)
(* its timeout and no processing task exists; stop then has no await and   *)
(* runs in one piece.                                                      *)
(***************************************************************************)
LoopCalled(loop) ==
    /\ agent_loop.calls < MaxLoopCalls
    /\ agent_loop' = [loop EXCEPT !.calls = @ + 1]
    /\ UNCHANGED <<agent_vars, window, executions, unit_vars, memory_call,
                   assembly, pipeline, backend>>

\* AgentLoop.start
LStart ==
    LoopCalled(IF agent_loop.state = "running" THEN agent_loop
               ELSE [agent_loop EXCEPT !.state = "running",
                                       !.stop_event = FALSE,
                                       !.pause_event = FALSE,
                                       !.tasks = Append(@, "created")])

\* AgentLoop.stop
LStop ==
    LoopCalled(IF agent_loop.state = "stopped" THEN agent_loop
               ELSE [agent_loop EXCEPT !.state = "stopped",
                                       !.stop_event = TRUE])

\* AgentLoop.pause
LPause ==
    LoopCalled(IF agent_loop.state = "running"
               THEN [agent_loop EXCEPT !.state = "paused", !.pause_event = TRUE]
               ELSE agent_loop)

\* AgentLoop.resume
LResume ==
    LoopCalled(IF agent_loop.state = "paused"
               THEN [agent_loop EXCEPT !.state = "running", !.pause_event = FALSE]
               ELSE agent_loop)

\* AgentLoop._main_loop of task t, from the point where it is suspended to
\* the next one: the task starts, the sleep ends, or dequeue times out, and
\* the head of the while loop is evaluated
MainLoopStep(t) ==
    /\ agent_loop.tasks[t] # "ended"
    /\ agent_loop' = [agent_loop EXCEPT
                         !.tasks[t] = IF agent_loop.stop_event THEN "ended"
                                      ELSE IF agent_loop.pause_event
                                      THEN "sleeping" ELSE "dequeue"]
    /\ UNCHANGED <<agent_vars, window, executions, unit_vars, memory_call,
                   assembly, pipeline, backend>>

LoopNext ==
    \/ LStart
    \/ LStop
    \/ LPause
    \/ LResume
    \/ \E t \in DOMAIN agent_loop.tasks : MainLoopStep(t)

LoopSpec == Init /\ [][LoopNext]_vars

(***************************************************************************)
(* InMemoryQueueBackend used by concurrent coroutines: producers calling   *)
(* enqueue, MaxConsumers consumers calling dequeue, and clear.  A step is  *)
(* the code a coroutine runs between two points where it is suspended.     *)
(* The only such point is the await of the getter future in                *)
(* asyncio.Queue.get on an empty queue: the PriorityQueue is unbounded, so *)
(* put never waits, and no coroutine is suspended while it holds _lock, so *)
(* acquiring _lock never waits either.                                     *)
(***************************************************************************)
Consumers == 1..MaxConsumers

\* asyncio.Queue._wakeup_next(self._getters), called by put_nowait
WakeupNext(b) ==
    IF b.waiting = <<>> THEN b
    ELSE [b EXCEPT !.waiting = Tail(@), !.woken = @ \cup {Head(b.waiting)}]

\* faulty variant of GotMessage: _size is left as it was
GotMessageUncounted(b) == [b EXCEPT !.heap = HeapPop(@)]

\* dequeue from the return of queue.get on: the message is out of the heap
\* and _size is decremented under the lock
GotMessage(b) == [b EXCEPT !.heap = HeapPop(@), !.size = @ - 1]

BackendStep(b) ==
    /\ backend' = b
    /\ UNCHANGED <<agent_vars, window, executions, unit_vars, memory_call,
                   assembly, pipeline, agent_loop>>

BackendCalled(b) ==
    /\ backend.calls < MaxBackendCalls
    /\ BackendStep([b EXCEPT !.calls = @ + 1])

\* InMemoryQueueBackend.enqueue
BEnqueue(priority) ==
    BackendCalled(
        IF backend.size >= BackendMaxSize THEN backend
        ELSE [WakeupNext([backend EXCEPT
                             !.heap = HeapPush(@, [id |-> backend.puts + 1,
                                                   priority |-> priority]),
                             !.puts = @ + 1])
                 EXCEPT !.size = @ + 1])

\* InMemoryQueueBackend.dequeue, called by consumer c: up to the message,
\* or up to the await of the getter future
BDequeue(c) ==
    /\ c \notin backend.woken
    /\ \A k \in 1..Len(backend.waiting) : backend.waiting[k] # c
    /\ BackendCalled(IF backend.heap # <<>> THEN GotMessage(backend)
                     ELSE [backend EXCEPT !.waiting = Append(@, c)])

\* asyncio.Queue.get resumes in consumer c after its getter future was set:
\* the while loop tests empty() again
BResume(c) ==
    /\ c \in backend.woken
    /\ BackendStep(IF backend.heap # <<>>
                   THEN GotMessage([backend EXCEPT !.woken = @ \ {c}])
                   ELSE [backend EXCEPT !.woken = @ \ {c},
                                        !.waiting = Append(@, c)])

\* the timeout of dequeue cancels consumer c while it waits in queue.get: a
\* getter whose future was set passes the wake-up on; dequeue returns None
BTimeout(c) ==
    \/ /\ c \in backend.woken
       /\ BackendStep(IF backend.heap # <<>>
                      THEN WakeupNext([backend EXCEPT !.woken = @ \ {c}])
                      ELSE [backend EXCEPT !.woken = @ \ {c}])
    \/ /\ \E k \in 1..Len(backend.waiting) : backend.waiting[k] = c
       /\ BackendStep([backend EXCEPT
                          !.waiting = SelectSeq(@, LAMBDA x : x # c)])

\* InMemoryQueueBackend.clear
BClear == BackendCalled([backend EXCEPT !.heap = <<>>, !.size = 0])

BackendNext ==
    \/ \E priority \in {1, 2} : BEnqueue(priority)
    \/ \E c \in Consumers : BDequeue(c)
    \/ \E c \in Consumers : BResume(c)
    \/ \E c \in Consumers : BTimeout(c)
    \/ BClear

BackendSpec == Init /\ [][BackendNext]_vars

(***************************************************************************)
(* The assembly of the tool calls of one streamed LLM response             *)
(* (ChatAgent.chat_stream, and the same code in                            *)
(* AgentLoop._stream_llm_call) on its own: the provider sends the          *)
(* fragments of the calls in any interleaving of their indices; the first  *)
(* fragment of a call carries its id and name, the following ones only a   *)
(* piece of the arguments.                                                 *)
(***************************************************************************)
FragmentInputs ==
    { Fragment(index, id, name, arguments) :
        index \in 0..MaxIndex,
        id \in {NoId, <<1, 1>>}, name \in {"", REGULAR_TOOL},
        arguments \in {<<"{">>, <<"}">>} }

\* for tc in delta.tool_calls: the body, for one fragment
AssembleFragment(tc) ==
    /\ Len(assembly.fragments) < MaxFragments
    /\ (tc.id = NoId) = (tc.name = "")
    /\ assembly' = [fragments |-> Append(assembly.fragments, tc),
                    tool_calls |-> ApplyFragment(assembly.tool_calls, tc)]
    /\ UNCHANGED <<agent_vars, window, executions, unit_vars, memory_call,
                   pipeline, agent_loop, backend>>

AssemblyNext == \E tc \in FragmentInputs : AssembleFragment(tc)

AssemblySpec == Init /\ [][AssemblyNext]_vars

(***************************************************************************)
(* Definitions used by the properties.                                     *)
(***************************************************************************)
\* the tool executions in flight in the ToolExecutor
InFlight ==
    {<<c, i>> \in ExecIds \X (1..MaxBatch) :
        /\ i \in 1..Len(executions[c].tasks)
        /\ executions[c].tasks[i] = "in_flight"}

(***************************************************************************)
(* Vocabulary of the properties.                                           *)
(***************************************************************************)
Finished(r) == runs[r].pc = "finished"

Quiescent(sid) == ActiveOn(sid) = {}

Last(s) == s[Len(s)]

Count(s, P(_)) == Cardinality({i \in 1..Len(s) : P(s[i])})

IsSessionChunk(c) == c.type = "session"

IsTerminalChunk(c) == c.type \in {"done", "error"}

\* exactly one session chunk, first; exactly one terminal chunk, last
WellFramed(chunks) ==
    /\ chunks # <<>>
    /\ IsSessionChunk(chunks[1])
    /\ Count(chunks, IsSessionChunk) = 1
    /\ IsTerminalChunk(Last(chunks))
    /\ Count(chunks, IsTerminalChunk) = 1

\* the assistant message at position i is followed by exactly its tool results
Answered_At(messages, i) ==
    LET k == Len(messages[i].tool_calls)
    IN  /\ i + k <= Len(messages)
        /\ \A j \in 1..k : messages[i + j].role = "tool"
        /\ {messages[i + j].tool_call_id : j \in 1..k}
               = {messages[i].tool_calls[j].id : j \in 1..k}
        /\ i + k < Len(messages) => messages[i + k + 1].role # "tool"

WellPaired(messages) ==
    \A i \in 1..Len(messages) :
        messages[i].role = "assistant" /\ messages[i].tool_calls # <<>>
            => Answered_At(messages, i)

\* user, (assistant with tool_calls, its tool messages)*, terminal assistant
RECURSIVE GroupsThenTerminal(_)
GroupsThenTerminal(ms) ==
    /\ ms # <<>>
    /\ ms[1].role = "assistant"
    /\ IF ms[1].tool_calls = <<>> THEN Len(ms) = 1
       ELSE LET k == Len(ms[1].tool_calls)
            IN  /\ Answered_At(ms, 1)
                /\ GroupsThenTerminal(SubSeq(ms, k + 2, Len(ms)))

RunTranscript(ms) ==
    /\ ms # <<>>
    /\ ms[1].role = "user"
    /\ GroupsThenTerminal(Tail(ms))

\* the content deltas emitted as type=content chunks in iteration n
EmittedContent(chunks, n) ==
    Flatten([i \in 1..Len(chunks) |->
                IF chunks[i].type = "content" /\ chunks[i].iteration = n
                THEN chunks[i].delta ELSE <<>>])

\* the signal of run r was set while r was consuming provider deltas
CutShort(r) == runs[r].mode = "stream" /\ runs[r].cut # <<>>

(***************************************************************************)
(* Properties.                                                             *)
(***************************************************************************)

C2_SingleWriter ==
    \A r1, r2 \in RunIds :
        r1 # r2 /\ Active(r1) /\ Active(r2)
            => runs[r1].session_id # runs[r2].session_id

\* C3: when no run is active on a session whose runs ended completed,
\* interrupted or on the iteration limit, every stored assistant message with
\* tool_calls [c1..ck] is followed by exactly k tool messages whose
\* tool_call_id values are c1.id..ck.id in some order.
C3_ToolCallsAnswered ==
    \A sid \in DOMAIN sessions :
        /\ Quiescent(sid)
        /\ \A r \in RunIds :
               runs[r].session_id = sid
                   => runs[r].outcome \in {"completed", "interrupted", "RuntimeError"}
        => WellPaired(sessions[sid].messages)

\* C4: a run that ended completed or interrupted stored, in order, one user
\* message, zero or more groups of an assistant message with tool_calls and
\* its tool messages, and one terminal assistant message.
C4_RunTranscript ==
    \A r \in RunIds :
        Finished(r) /\ runs[r].outcome \in {"completed", "interrupted"}
            => RunTranscript(runs[r].stored)

C6_InterruptResult ==
    last_interrupt.session # None
        => /\ ~last_interrupt.registered => ~last_interrupt.result
           /\ last_interrupt.active => last_interrupt.result

\* C7: a signal is registered for session s exactly while some run on s is
\* active; the ending of one run does not remove the signal of another.
C7_SignalWhileActive ==
    \A sid \in SessionIds :
        sid \in DOMAIN interrupt_events <=> ActiveOn(sid) # {}

C9_PartialContentVerbatim ==
    \A r \in RunIds :
        CutShort(r) /\ runs[r].outcome = "interrupted"
            => /\ Last(runs[r].stored).role = "assistant"
               /\ Last(runs[r].stored).content
                      = EmittedContent(runs[r].chunks, runs[r].cut[1])

\* the run emitted a content delta, then saw the signal at the next delta,
\* which it neither emitted nor stored
C9_Witness ==
    \E r \in RunIds :
        /\ CutShort(r) /\ runs[r].outcome = "interrupted"
        /\ runs[r].stream = "closed"
        /\ Last(runs[r].stored).content # <<>>

\* C10: after a chat_stream run ended on an interrupt, the status of its
\* session is interrupted.
C10_StatusInterrupted ==
    \A r \in RunIds :
        Finished(r) /\ runs[r].mode = "stream" /\ runs[r].outcome = "interrupted"
            => sessions[runs[r].session_id].status = "interrupted"

\* the max_iterations-th LLM response of run r arrived whole and held
\* tool_calls
LimitResponse(r) ==
    /\ runs[r].llm_calls = MaxIterations
    /\ runs[r].pc # "llm"
    /\ runs[r].outcome # "LLMError"
    /\ runs[r].mode = "stream" => runs[r].stream = "exhausted"
    /\ runs[r].tool_calls # <<>>

\* the last assistant message of run r and a tool message for each of its
\* calls are among the stored messages of the session
LastGroupStored(r) ==
    LET messages == sessions[runs[r].session_id].messages
    IN  /\ \E i \in 1..Len(messages) :
               /\ messages[i].role = "assistant"
               /\ messages[i].id[1] = r
               /\ messages[i].tool_calls = runs[r].tool_calls
        /\ \A j \in 1..Len(runs[r].tool_calls) :
               \E i \in 1..Len(messages) :
                   /\ messages[i].role = "tool"
                   /\ messages[i].tool_call_id = runs[r].tool_calls[j].id

NoDoneChunk(r) == \A i \in 1..Len(runs[r].chunks) : runs[r].chunks[i].type # "done"

\* C11: a run whose max_iterations-th LLM response still holds tool_calls,
\* and whose signal was not set, ends with the runtime error of the
\* iteration limit, without a done chunk in chat_stream, and at the step
\* that ends it the last assistant message and the tool messages answering
\* its calls are stored in the session.
C11_LimitRaises ==
    [][\A r \in RunIds :
          /\ ~Finished(r)
          /\ Finished(r)'
          /\ LimitResponse(r)'
          /\ ~runs'[r].interrupt_set
          => /\ runs'[r].outcome = "RuntimeError"
             /\ NoDoneChunk(r)'
             /\ LastGroupStored(r)']_vars

\* C12: a call of ToolExecutor.execute that returned gave one ToolResult per
\* tool call, result i carrying the tool_call_id of call i whatever the order
\* of completion, and each result is the one its own call came to, whatever
\* happened to the other calls of the batch.
C12_OneResultPerCall ==
    \A c \in ExecIds :
        executions[c].state = "returned"
            => /\ Len(executions[c].final) = Len(executions[c].tool_calls)
               /\ \A i \in 1..Len(executions[c].tool_calls) :
                      /\ executions[c].final[i].tool_call_id
                             = executions[c].tool_calls[i].id
                      /\ executions[c].final[i]
                             = ExecuteSingle(executions[c].tool_calls[i],
                                             executions[c].how[i])

\* a batch whose first call ran into the timeout after its second call had
\* returned, and whose third call had malformed arguments
C12_Witness ==
    \E c \in ExecIds :
        /\ executions[c].state = "returned"
        /\ Len(executions[c].tool_calls) = 3
        /\ executions[c].order = <<2, 1, 3>>
        /\ executions[c].how[1] = "times_out"
        /\ executions[c].final[2].success
        /\ executions[c].final[3].error = <<"Invalid JSON arguments">>

\* C13: the number of tool executions in flight in the ToolExecutor never
\* exceeds max_parallel, also with several calls of execute under way.
C13_ParallelismBound ==
    Cardinality(InFlight) <= MaxParallel

\* C14: for every failed ToolResult that tool_executor.execute returned to a
\* run, the run appended a role=tool message with that call's id whose
\* content is the failure description of the result.
C14_FailureDescribed ==
    \A r \in RunIds :
        \A k \in 1..Len(runs[r].tool_results) :
            ~runs[r].tool_results[k].success
                => \E i \in 1..Len(runs[r].stored) :
                       /\ runs[r].stored[i].role = "tool"
                       /\ runs[r].stored[i].tool_call_id
                              = runs[r].tool_results[k].tool_call_id
                       /\ runs[r].stored[i].content
                              = runs[r].tool_results[k].error

\* the rows of the table that belong to session sid
ListsOf(sid) == {k \in 1..Len(todo_table) : todo_table[k].session_id = sid}

Running(row) == {i \in 1..Len(row.items) : row.items[i].status = "running"}

\* the entries of the log of sid that returned a snapshot
Snapshots(sid) == SelectSeq(todo_log[sid], LAMBDA e : e.op # "clear")

\* C15: after every committed todo mutation a session has at most one todo
\* list, and at most one item of it has status running.
C15_OneListOneRunning ==
    \A sid \in SessionIds :
        /\ Cardinality(ListsOf(sid)) <= 1
        /\ \A k \in ListsOf(sid) : Cardinality(Running(todo_table[k])) <= 1

\* C16: within a session every todo mutation returns a snapshot whose
\* revision is greater than that of the snapshot before it.
C16_RevisionGrows ==
    \A sid \in SessionIds :
        \A k \in 2..Len(Snapshots(sid)) :
            Snapshots(sid)[k].revision > Snapshots(sid)[k - 1].revision

\* C17: every manage_todo_list call that a chat_stream run processed has
\* exactly one todo_list chunk in the stream of the run; the chunk carries
\* the snapshot of the call, it was emitted in the iteration of the call,
\* before the next LLM call, and after the assistant message that holds the
\* call was stored.
C17_OneChunkPerTodoCall ==
    \A sid \in SessionIds :
        \A k \in 1..Len(todo_log[sid]) :
            LET e == todo_log[sid][k]
                chunks == IF e.run = 0 THEN <<>> ELSE runs[e.run].chunks
                mine == {i \in 1..Len(chunks) :
                            chunks[i].type = "todo_list" /\ chunks[i].delta = <<k>>}
            IN  e.run # 0 /\ runs[e.run].mode = "stream"
                    => /\ Cardinality(mine) = 1
                       /\ \A i \in mine :
                              /\ chunks[i].iteration = e.call[2]
                              /\ \E j \in 1..chunks[i].stored :
                                     /\ runs[e.run].stored[j].role = "assistant"
                                     /\ \E c \in 1..Len(runs[e.run].stored[j].tool_calls) :
                                            runs[e.run].stored[j].tool_calls[c].id = e.call

\* C18: right after create_or_replace(session, title, items), get_todo_list
\* returns a list with that title and with the labels and statuses of the
\* items in the order in which they were given.
C18_CreateThenGet ==
    \A sid \in SessionIds :
        todo_log[sid] # <<>> /\ Last(todo_log[sid]).op = "create_or_replace"
            => /\ GetTodoList(todo_table, sid) # {}
               /\ \A tl \in GetTodoList(todo_table, sid) :
                      /\ tl.title = Last(todo_log[sid]).title
                      /\ Len(tl.items) = Len(Last(todo_log[sid]).items)
                      /\ \A i \in 1..Len(tl.items) :
                             /\ tl.items[i].label = Last(todo_log[sid]).items[i].label
                             /\ tl.items[i].status = Last(todo_log[sid]).items[i].status

\* C19: when no run is active on a session, the token counts of its stored
\* messages add up to the current_tokens of its ContextWindow.
C19_SessionTokensMatchWindow ==
    \A sid \in DOMAIN sessions :
        Quiescent(sid)
            => TotalTokens(sessions[sid].messages)
                   = context_windows[sid].current_tokens

SegmentTokens(segments) ==
    SumSeq([i \in 1..Len(segments) |-> segments[i].token_count])

\* C20: after any sequence of add_message, move_to_warm, move_to_cold with
\* or without a summary, remove_message, clear and optimize, current_tokens
\* is the sum of the token counts of the hot, warm and cold segments.
C20_TokenAccountingExact ==
    window.cw.current_tokens
        = SegmentTokens(window.cw.hot) + SegmentTokens(window.cw.warm)
              + SegmentTokens(window.cw.cold)

\* a window with a summarised cold segment and a hot segment, from which a
\* message was removed after the move
C20_Witness ==
    /\ \E i \in 1..Len(window.cw.cold) : window.cw.cold[i].summary # NoSummary
    /\ window.cw.hot # <<>>
    /\ \E k \in 1..MaxWindowMessages :
           /\ <<0, k>> \notin DOMAIN window.cw.index
           /\ \E i \in 1..Len(window.cw.hot) :
                  \E j \in 1..Len(window.cw.hot[i].messages) :
                      window.cw.hot[i].messages[j].id[2] > k
    /\ window.cw.current_tokens > 0

\* C21: after any sequence of ContextWindow operations current_tokens is at
\* most max_tokens - reserved_tokens; neither an insertion nor a demotion to
\* cold with a summary raises it above that budget.
C21_WithinBudget ==
    window.cw.current_tokens <= AvailableTokens

\* C22: a segment with is_locked = true never leaves the hot band: after any
\* sequence of move_to_warm, move_to_cold, optimize and clear there is no
\* locked segment in the warm band or in the cold band.
C22_LockedStaysHot ==
    /\ \A i \in 1..Len(window.cw.warm) : ~window.cw.warm[i].is_locked
    /\ \A i \in 1..Len(window.cw.cold) : ~window.cw.cold[i].is_locked

\* the segments of a band of the window
Band(cw, layer) ==
    IF layer = "hot" THEN cw.hot ELSE IF layer = "warm" THEN cw.warm ELSE cw.cold

\* C23: every entry of the message index maps a message id to the band, the
\* segment index and the message index where the message with that id is
\* stored.
C23_IndexPointsAtMessage ==
    \A id \in DOMAIN window.cw.index :
        LET entry == window.cw.index[id]
            segments == Band(window.cw, entry[1])
        IN  /\ entry[2] <= Len(segments)
            /\ entry[3] <= Len(segments[entry[2]].messages)
            /\ segments[entry[2]].messages[entry[3]].id = id

\* position i holds one of the last KeepRecent non-system messages
AmongLastNonSystem(messages, i) ==
    /\ messages[i].role # "system"
    /\ Cardinality({j \in (i + 1)..Len(messages) : messages[j].role # "system"})
           < KeepRecent

\* what the retention rule promises to keep
MustRetain(messages, i) ==
    \/ messages[i].role = "system"
    \/ AmongLastNonSystem(messages, i)
    \/ Score(messages[i], i, Len(messages)) >= ScoreThreshold

\* C24: for a list of at least 3 messages compress retains, in their
\* original order, every system message, the last 3 non-system messages and
\* every message scored at least 0.7, and hands exactly the other messages
\* to the summarizer.
C24_RetentionRule ==
    (compression.called /\ Len(compression.messages) >= MinCompressLen)
        => /\ compression.retained
                  = SelectIdx(compression.messages,
                              LAMBDA i : MustRetain(compression.messages, i))
           /\ compression.summary
                  = GenerateSummary(
                        SelectIdx(compression.messages,
                                  LAMBDA k : ~MustRetain(compression.messages, k)))

\* C25: after a compression triggered by add_message the window's
\* current_tokens is at most target_compression_ratio * max_context_tokens.
C25_CompressionReachesTarget ==
    (memory_call.op = "add_message" /\ memory_call.compressed)
        => context_windows[memory_call.session_id].current_tokens * 100
               <= TargetRatioPct * MaxContextTokens

\* the tokens of a rendered list, each entry counted by count_message_tokens
RenderedTokens(rendered) ==
    SumSeq([i \in 1..Len(rendered) |-> CountMessageTokens(rendered[i])])

\* the message of the last add_message call is part of the rendered list
LastMessageRendered(session) ==
    \E i \in 1..Len(session.messages) :
        /\ session.messages[i].id = memory_call.message_id
        /\ \E j \in 1..Len(GetOpenAIMessages(session)) :
               GetOpenAIMessages(session)[j] = ToOpenAIFormat(session.messages[i])

\* C30: after any sequence of add_message calls the list rendered by
\* get_openai_messages counts at most max_context_tokens - reserved_tokens
\* tokens, and a message whose add_message returned false is not part of it.
C30_RenderedWithinBudget ==
    \A sid \in DOMAIN sessions :
        /\ RenderedTokens(GetOpenAIMessages(sessions[sid])) <= AvailableTokens
        /\ (memory_call.op = "add_message" /\ memory_call.session_id = sid
                /\ ~memory_call.returned)
               => ~LastMessageRendered(sessions[sid])

\* C29: after delete_session(s) neither the session nor its todo list can
\* be retrieved, and delete_session of an id the MemoryManager does not hold
\* reports failure.
C29_DeleteCascades ==
    memory_call.op = "delete_session"
        => /\ memory_call.session_id \notin DOMAIN sessions
           /\ GetTodoList(todo_table, memory_call.session_id) = {}
           /\ ~memory_call.known => ~memory_call.returned

\* C26: the dequeuer receives the messages in descending priority and the
\* messages of equal priority in the order they were enqueued: no message
\* left in the queue by a dequeue has a higher priority than the message
\* returned, or the same priority and an earlier enqueue.
C26_PriorityThenFifo ==
    queue.last # NoMessage
        => \A p \in 1..Len(queue.heap) :
               \/ queue.heap[p].priority < queue.last.priority
               \/ /\ queue.heap[p].priority = queue.last.priority
                  /\ queue.heap[p].id > queue.last.id

\* C27: every container created by DockerSandboxManager.execute is removed
\* before execute returns, on every path: once a call has returned the
\* daemon holds no container of it.
C27_NoContainerAfterReturn ==
    \A c \in SandboxCalls :
        sandbox.calls[c].pc = "returned" => c \notin sandbox.containers

\* C28: a call of CodeExecutor.execute with a code the SecurityChecker
\* blocks returns status security_blocked with the blocked reason and
\* creates no container, whether or not the sandbox was initialized and the
\* daemon is reachable.
C28_BlockedBeforeDocker ==
    \A c \in SandboxCalls :
        (sandbox.calls[c].pc = "returned" /\ ~Validate(sandbox.calls[c].code).passed)
            => /\ sandbox.calls[c].status = "security_blocked"
               /\ sandbox.calls[c].error
                      = Validate(sandbox.calls[c].code).blocked_reason
               /\ c \notin sandbox.containers
               /\ ~sandbox.calls[c].creating

\* the arguments of the fragments of one index, concatenated in the order
\* of arrival
RECURSIVE ArgumentsOf(_, _)
ArgumentsOf(fragments, index) ==
    IF fragments = <<>> THEN <<>>
    ELSE (IF Head(fragments).index = index THEN Head(fragments).arguments
          ELSE <<>>) \o ArgumentsOf(Tail(fragments), index)

\* C31: however the fragments of the tool calls of one LLM response
\* interleave, the arguments assembled for index i are the argument
\* fragments that carry index i, concatenated in their order of arrival, and
\* the assembled list is ordered by index: entry i + 1 is the call of index
\* i, whichever index appeared first, and the list reaches the largest index.
C31_AssembledByIndex ==
    /\ \A i \in 1..Len(assembly.tool_calls) :
           assembly.tool_calls[i].arguments
               = ArgumentsOf(assembly.fragments, i - 1)
    /\ \A k \in 1..Len(assembly.fragments) :
           assembly.fragments[k].index < Len(assembly.tool_calls)
    /\ assembly.tool_calls # <<>> =>
           \E k \in 1..Len(assembly.fragments) :
               assembly.fragments[k].index = Len(assembly.tool_calls) - 1

\* index 1 appears before index 0 and the fragments of the two alternate
C31_Witness ==
    /\ Len(assembly.fragments) = 4
    /\ assembly.fragments[1].index = 1 /\ assembly.fragments[2].index = 0
    /\ assembly.fragments[3].index = 1 /\ assembly.fragments[4].index = 0
    /\ assembly.tool_calls[1].arguments = <<"}", "{">>
    /\ assembly.tool_calls[2].arguments = <<"{", "}">>

\* the run stored an assistant message with a tool call that has no name
StoredNameless(r) ==
    \E k \in 1..Len(runs[r].stored) :
        /\ runs[r].stored[k].role = "assistant"
        /\ \E i \in 1..Len(runs[r].stored[k].tool_calls) :
               runs[r].stored[k].tool_calls[i].name = ""

\* C32: a streamed run whose response has a tool-call index that never
\* received a name ends as a failure, and no tool message stored in a
\* session has an empty tool_call_id (a call that never received an id is
\* stored under a generated one).
C32_NamelessFailsIdGenerated ==
    /\ \A r \in RunIds :
           Finished(r) /\ runs[r].mode = "stream" /\ StoredNameless(r)
               => runs[r].outcome \notin {"completed", "interrupted"}
    /\ \A sid \in DOMAIN sessions :
           \A k \in 1..Len(sessions[sid].messages) :
               sessions[sid].messages[k].role = "tool"
                   => sessions[sid].messages[k].tool_call_id # NoId

\* C33: ContextWindow.optimize returns exactly the number of tokens by which
\* current_tokens went down during the call, 0 when the usage ratio was
\* already at or below the target.
C33_OptimizeReturnsFreed ==
    window.op = "optimize"
        => window.returned = window.before - window.cw.current_tokens

\* the calls of next_handler that raised
Failures(results) == SelectSeq(results, LAMBDA e : e # NoError)

\* C34: RetryMiddleware(max_retries, delay) calls the next handler at most
\* max_retries times; it returns at the first call that succeeds, so only
\* the last call made can be a success; between a failed attempt and the
\* next one it waits delay * (attempt + 1), the k-th wait being delay * k,
\* and it does not wait after the last attempt; after max_retries failed
\* attempts it raises the error of the last call.
C34_RetryBackoff ==
    /\ pipeline.invoked <= pipeline.max_retries
    /\ \A k \in 1..(Len(pipeline.results) - 1) : pipeline.results[k] # NoError
    /\ pipeline.pc = "returned"
           => /\ pipeline.results[Len(pipeline.results)] = NoError
              /\ Len(pipeline.results) = pipeline.invoked
    /\ \A k \in 1..Len(pipeline.slept) : pipeline.slept[k] = pipeline.delay * k
    /\ Len(pipeline.slept)
           = IF pipeline.pc \in {"returned", "llm"} THEN pipeline.invoked - 1
             ELSE IF pipeline.pc = "raised" /\ pipeline.max_retries > 0
             THEN pipeline.max_retries - 1
             ELSE pipeline.invoked
    /\ pipeline.pc = "raised" /\ pipeline.max_retries > 0
           => /\ Len(Failures(pipeline.results)) = pipeline.max_retries
              /\ pipeline.raised = pipeline.results[Len(pipeline.results)]
    /\ pipeline.pc = "raised" /\ pipeline.max_retries = 0
           => pipeline.invoked = 0

\* three attempts fail with three different errors: two waits, of delay and
\* of twice the delay, and the third error is raised
C34_Witness ==
    /\ pipeline.pc = "raised" /\ pipeline.max_retries = 3
    /\ pipeline.delay = 2 /\ pipeline.slept = <<2, 4>>
    /\ pipeline.results
           = <<<<"LLMError", 1>>, <<"LLMError", 2>>, <<"LLMError", 3>>>>
    /\ pipeline.raised = <<"LLMError", 3>>

\* C35: on the queued AgentLoop path with the default pipeline, one
\* submitted request causes at most max_iterations LLM calls in total, the
\* calls of retried attempts included.
C35_LLMCallsWithinMaxIterations ==
    pipeline.max_retries = DefaultMaxRetries
        => pipeline.llm_calls <= MaxIterations

\* the ids of the messages a window holds in its three bands
WindowIds(cw) ==
    LET all == GetActiveMessages(cw)
                   \o Flatten([i \in 1..Len(cw.warm) |-> cw.warm[i].messages])
                   \o Flatten([i \in 1..Len(cw.cold) |-> cw.cold[i].messages])
    IN  [i \in 1..Len(all) |-> all[i].id]

\* C36: after any sequence of MemoryManager.add_message calls, compressions
\* that keep a locked system segment included, no message id appears more
\* than once in the session's window, the three bands taken together.
C36_NoDuplicateIds ==
    \A sid \in DOMAIN context_windows :
        \A i, j \in 1..Len(WindowIds(context_windows[sid])) :
            WindowIds(context_windows[sid])[i] = WindowIds(context_windows[sid])[j]
                => i = j

\* the ids of a list of messages
IdsOf(messages) == {messages[k].id : k \in 1..Len(messages)}

\* C37: a compression discards no conversation content silently: every
\* message that session.messages held before the compression (the message
\* being added included) is afterwards still in session.messages, or was
\* among the messages handed to the compressor, from which the summary was
\* produced; this covers the messages in the warm and cold bands and the
\* messages the window rejected.
C37_CompressionKeepsContent ==
    (memory_call.op = "add_message" /\ memory_call.compressed)
        => (IdsOf(memory_call.before) \cup {memory_call.message_id})
               \subseteq (IdsOf(sessions[memory_call.session_id].messages)
                              \cup IdsOf(memory_call.input))

\* C38: a message that ContextWindow.add_message accepted with lock=True is
\* held in a locked segment, whatever the tail hot segment was; the message
\* added is the last one of the last hot segment.
C38_LockedWhenAsked ==
    (window.op = "add_message_locked" /\ window.returned = 1)
        => window.cw.hot[Len(window.cw.hot)].is_locked

\* the _main_loop tasks that are inside their while loop
ActiveLoops ==
    {t \in DOMAIN agent_loop.tasks :
         agent_loop.tasks[t] \in {"sleeping", "dequeue"}}

\* C39: whatever sequence of start, pause, resume and stop is called (start
\* while PAUSED and start right after stop included), at most one _main_loop
\* task of the AgentLoop is active at any time.
C39_SingleMainLoop == Cardinality(ActiveLoops) <= 1

\* C40: under every interleaving of concurrent enqueue, dequeue and clear
\* calls on an InMemoryQueueBackend, the size counter is never negative,
\* never above max_size, and equals the number of messages the queue holds,
\* at every point where the coroutines are suspended and so whenever no
\* operation is in progress.
C40_SizeMatchesQueue ==
    /\ backend.size >= 0
    /\ backend.size <= BackendMaxSize
    /\ backend.size = Len(backend.heap)

\* an enqueue woke a waiting consumer and, before that consumer ran, the
\* other consumer took the message: the woken one will find the queue empty
C40_Witness ==
    /\ backend.woken # {}
    /\ backend.heap = <<>> /\ backend.size = 0
    /\ backend.puts = 2 /\ backend.calls = 5

====
